---------------------------- MODULE Spec2Model ----------------------------
(***************************************************************************)
(* Model of the AutomatePayouts bank automations.                          *)
(*                                                                         *)
(* Spec       one login attempt: the click that makes the bank send an     *)
(*            OTP, the caller's polling loop and fetchLatestOtp, next to   *)
(*            the capture agent that appends records to the OTP store.     *)
(*                                                                         *)
(* SpecFlows  one run of one of the four Playwright tests (Kotak statement *)
(*            download, Kotak full cycle, Axis report download, Axis       *)
(*            upload): its steps, try/catch/finally blocks, the afterEach  *)
(*            hook and the calls of sendTelegramAlert.                     *)
(*                                                                         *)
(* Time is explicit.  One unit of `now' is one second: the source's        *)
(* millisecond literals (60000, 3000, 2000) are written in seconds.        *)
(***************************************************************************)
EXTENDS Integers, Sequences, FiniteSets, TLC

(***************************************************************************)
(* Bounds of the model.                                                    *)
(***************************************************************************)
\* Date.now() when the attempt begins (any instant after the epoch).
StartClock == 10
\* Records the capture agent appends during one attempt.
MaxInserts == 1
\* Longest time one fetchLatestOtp call (connect, findOne, close) may take.
MaxQueryTime == 2
\* Polls of one attempt in which connect or findOne fails.
MaxFails == 1
\* Longest time between two records the capture agent appends during one
\* attempt (a code sent again).
MaxInsertGap == 2

(***************************************************************************)
(* Program constants.                                                      *)
(***************************************************************************)
\* while (!otp && Date.now() - startTime < 60000)
TimeoutBudget == 60
\* if (!otp) await new Promise(r => setTimeout(r, 3000))
PollInterval == 3

\* JavaScript null (and what `|| null' maps every falsy value to).
Null == "null"

\* The call sites of the polling loop.
Sites == {"Statement", "OtpA", "OtpB", "Final"}

\* The waitForTimeout between the click that triggers the OTP and the
\* Date.now() that becomes the reference timestamp, per call site.
WaitAfterClick(s) ==
    CASE s = "Statement" -> 3
      [] s = "OtpA"      -> 0
      [] s = "OtpB"      -> 2
      [] s = "Final"     -> 0

\* The message of the Error thrown when the loop of a call site ends
\* without a code.
TimeoutMessage(s) ==
    CASE s = "Statement" -> "OTP not received."
      [] s = "OtpA"      -> "OTP A timeout"
      [] s = "OtpB"      -> "OTP B timeout"
      [] s = "Final"     -> "Final OTP timeout"

\* let currentStep, as set before the loop of a call site (the statement
\* download has no such variable).
CurrentStep(s) ==
    CASE s = "Statement" -> ""
      [] s = "OtpA"      -> "OTP A"
      [] s = "OtpB"      -> "OTP B"
      [] s = "Final"     -> "Final OTP for Approval"

VARIABLES
    now,        \* the clock, Date.now()
    store,      \* the otps collection: a set of records [id, otp, createdAt]
    site,       \* which polling loop runs
    pc,         \* position of the flow
    clickTime,  \* instant of the 'Secure login' / 'Continue' click
    waitUntil,  \* end of the waitForTimeout after the click
    startTime,  \* const startTime = Date.now()
    otp,        \* let otp = null
    ret,        \* value the running fetchLatestOtp call is about to return
    found,      \* the document findOne gave (a set with at most one record)
    pollStart,  \* when the running fetchLatestOtp call began
    wakeAt,     \* when the running setTimeout fires
    conns,      \* MongoClient connections the retriever holds open
    error,      \* the error the flow ended with
    typed,      \* what was filled into the otpMobile textbox
    hist        \* history: counters and facts the properties refer to

VARIABLES
    flow,       \* which test runs
    ip,         \* the statement of the test about to run
    exc,        \* the exception in flight (the statement that threw)
    returning,  \* a return statement is running the finally blocks
    status,     \* testInfo.status
    flags,      \* variables of the test that later statements test
    iter,       \* files processed by the download loop
    alerts,     \* the sendTelegramAlert calls made, in order
    env,        \* process.env: TELEGRAM_BOT_TOKEN, TELEGRAM_CHAT_ID
    tg,         \* the running sendTelegramAlert call
    failed      \* history: the statements that failed in this run

VARIABLES
    rs          \* two login attempts that poll the same store: their loops

otpVars == <<now, store, site, pc, clickTime, waitUntil, startTime, otp, ret,
             found, pollStart, wakeAt, conns, error, typed, hist>>

flowVars == <<flow, ip, exc, returning, status, flags, iter, alerts, env, tg,
              failed>>

VARIABLES
    sheetCols,  \* the columns the header row of the sheet has
    allRows,    \* the data rows of the sheet, below the header row
    rowIdx,     \* the row the for loop is at
    results,    \* const results = []
    origin,     \* history: the row each element of results was made from
    parsePc,    \* position in parseAxisBankReport
    parsed      \* what parseAxisBankReport returned

VARIABLES
    payStatus,  \* the payouts collection: the status of each payout
    csvDir,     \* the .csv files in tests/KotakFiles
    run,        \* runs of the full-cycle test begun so far
    cpc,        \* position in the full-cycle test
    csvFilePath,            \* let csvFilePath = null
    shouldUpdateDatabase,   \* let shouldUpdateDatabase = false
    payoutIds,              \* let payoutIds = []
    csvGenerated,           \* let csvGenerated = false
    cexc,       \* the exception in flight (the statement that threw)
    creturning, \* a return statement is running the finally block
    result,     \* how the run ended
    prog,       \* history: what the run has completed
    cfailed,    \* history: the statements that threw in the run
    paid,       \* history: per payout, the passed runs that approved it
    remark,     \* finalRemarks: the text of the remarks cell
    cconns,     \* the MongoClients of the run that are connected
    calerts,    \* history: the sendTelegramAlert calls of the run, in order
    dbOps       \* history: the calls on the payouts collection in the run

VARIABLES
    ks,         \* the polling loop of the OTP step the full cycle is at
    kstep,      \* which of the three OTP steps of the run that is
    given       \* history: the record each finished step got, and its T

VARIABLES
    ing         \* a report-download test handling one downloaded XLS file

VARIABLES
    up          \* the Axis upload test and the directory it uploads from

pairVars == <<rs>>

upVars == <<up>>

ingVars == <<ing>>

seqVars == <<ks, kstep, given>>

cycleVars == <<payStatus, csvDir, run, cpc, csvFilePath, shouldUpdateDatabase,
               payoutIds, csvGenerated, cexc, creturning, result, prog,
               cfailed, paid, remark, cconns, calerts, dbOps>>

parseVars == <<sheetCols, allRows, rowIdx, results, origin, parsePc, parsed>>

\* What the actions of one specification leave alone.
besidesOtp ==
    <<flowVars, pairVars, parseVars, cycleVars, seqVars, ingVars, upVars>>

besidesFlow ==
    <<otpVars, pairVars, parseVars, cycleVars, seqVars, ingVars, upVars>>

besidesPair ==
    <<flowVars, parseVars, cycleVars, seqVars, ingVars, upVars>>

besidesCycle ==
    <<otpVars, flowVars, pairVars, parseVars, seqVars, ingVars, upVars>>

besidesParse ==
    <<otpVars, flowVars, pairVars, cycleVars, seqVars, ingVars, upVars>>

otpRest == <<site, pc, clickTime, waitUntil, startTime, otp, ret, found,
             pollStart, wakeAt, conns, error, typed, hist>>

besidesSeq ==
    <<otpRest, flowVars, pairVars, parseVars, cycleVars, ingVars, upVars>>

besidesIngest == <<otpVars, flowVars, pairVars, cycleVars, seqVars, upVars>>

besidesUpload ==
    <<otpVars, flowVars, pairVars, parseVars, cycleVars, seqVars, ingVars>>

vars ==
    <<otpVars, flowVars, pairVars, parseVars, cycleVars, seqVars, ingVars, upVars>>

(***************************************************************************)
(* The OTP store.                                                          *)
(***************************************************************************)
\* The code the capture agent stores in its id-th record.
CodeOf(id) == ToString(111111 * id)

\* Records in the store before the attempt begins, when it is not empty: an
\* old one (ten seconds before) and one dated two seconds after the begin (a
\* capture agent whose clock is ahead of the flow's).  Codes are distinct:
\* a record is known by its code.
InitialRecords ==
    { [id |-> 1, otp |-> CodeOf(1), createdAt |-> StartClock - 10],
      [id |-> 2, otp |-> CodeOf(2), createdAt |-> StartClock + 2] }

\* Ids of the records the capture agent appends during the attempt.
InsertedIds == 3 .. (2 + MaxInserts)

(***************************************************************************)
(* fetchLatestOtp, the pure parts.                                         *)
(***************************************************************************)
\* afterTimestamp ? {...} : {}   (0 is falsy, like null)
Truthy(ts) == ts # 0

MatchingGte(S, afterTimestamp) ==
    IF Truthy(afterTimestamp)
    THEN {r \in S : r.createdAt >= afterTimestamp}
    ELSE S

\* query = afterTimestamp ? { createdAt: { $gt: new Date(Number(ts)) } } : {}
Matching(S, afterTimestamp) ==
    IF Truthy(afterTimestamp)
    THEN {r \in S : r.createdAt > afterTimestamp}
    ELSE S

SortedOldestFirst(S) == {r \in S : \A q \in S : q.createdAt >= r.createdAt}

\* sort: { createdAt: -1 }: the documents findOne may give first.
SortedNewestFirst(S) == {r \in S : \A q \in S : q.createdAt <= r.createdAt}

\* findOne(query, {sort}): a set with the one document found, or empty.
FindOneResults(S, afterTimestamp) ==
    LET m == SortedNewestFirst(Matching(S, afterTimestamp))
    IN  IF m = {} THEN {{}} ELSE {{r} : r \in m}

\* Reads a field the records do not have: undefined || null.
OrNullWrongField(doc) == Null

\* otp?.otp || null
OrNull(doc) ==
    IF doc = {} THEN Null
    ELSE LET v == (CHOOSE r \in doc : TRUE).otp
         IN  IF v = "" THEN Null ELSE v

(***************************************************************************)
(* History.                                                                *)
(***************************************************************************)
Hist0 ==
    [ polled      |-> FALSE,  \* a fetchLatestOtp call was begun
      repolled    |-> FALSE,  \* a second fetchLatestOtp call was begun
      slept       |-> FALSE,  \* a setTimeout sleep was begun
      fails       |-> 0,      \* polls in which connect or findOne failed
      qualAtStart |-> FALSE,  \* a qualifying record was there at the start
      inBudget    |-> FALSE,  \* a qualifying record was appended in budget
      seenQual    |-> FALSE ] \* a findOne succeeded with a qualifying record

Qualifying(S, T) == {r \in S : r.createdAt > T}

(***************************************************************************)
(* Initial state: the flow is about to click.                              *)
(***************************************************************************)
OtpInit ==
    /\ now = StartClock
    /\ store \in {{}, InitialRecords}
    /\ site \in Sites
    /\ pc = "click"
    /\ clickTime = 0
    /\ waitUntil = 0
    /\ startTime = 0
    /\ otp = Null
    /\ ret = Null
    /\ found = {}
    /\ pollStart = 0
    /\ wakeAt = 0
    /\ conns = 0
    /\ error = "none"
    /\ typed = Null
    /\ hist = Hist0

\* The run of a test, not begun.
NoCall == [pc |-> "idle", kind |-> "", ret |-> "", alt |-> "", reqs |-> 0,
           outcome |-> "none", log |-> "none", result |-> "none"]

FlowIdle ==
    /\ flow = "none"
    /\ ip = "end"
    /\ exc = "none"
    /\ returning = FALSE
    /\ status = "none"
    /\ flags = {}
    /\ iter = 0
    /\ alerts = <<>>
    /\ env = [token |-> "", chatId |-> ""]
    /\ tg = NoCall
    /\ failed = {}

\* The login attempts of the two-retriever specification.
Retrievers == {1, 2}

\* A login attempt that has not taken its reference timestamp yet.
Loop0 == [pc |-> "start", startTime |-> 0, otp |-> Null, ret |-> Null,
          found |-> {}, wakeAt |-> 0, conns |-> 0, fails |-> 0]

PairIdle == rs = [i \in Retrievers |-> Loop0]

\* A report-download test that has not begun: no client connected, no
\* file saved, nothing inserted, no alert sent.
Ingest0 == [flow |-> "none", pc |-> "idle", conn |-> FALSE, onDisk |-> FALSE,
            docs |-> <<>>, stored |-> <<>>, alerts |-> <<>>, exc |-> "none",
            outcome |-> "none", failed |-> {}, deleted |-> FALSE]

\* The OTP steps of one run of the full cycle, in order.
StepSite == <<"OtpA", "OtpB", "Final">>

\* The loop of an OTP step whose page has not been reached.
Step0 == [pc |-> "idle", clickTime |-> 0, waitUntil |-> 0, startTime |-> 0,
          otp |-> Null, ret |-> Null, found |-> {}, callStart |-> 0,
          wakeAt |-> 0, polls |-> 0, fails |-> 0, inserts |-> 0]

\* No run of three OTP steps.
SeqIdle ==
    /\ ks = Step0
    /\ kstep = 0
    /\ given = <<>>

\* No report-download test.
IngestIdle == ing = Ingest0

\* The Axis upload test not begun, over an empty directory.
Upload0 == [pc |-> "idle", dir |-> {}, excelFiles |-> {}, latest |-> {},
            exc |-> "none", alerts |-> <<>>, outcome |-> "none"]

UploadIdle == up = Upload0

\* parseAxisBankReport not called.
ParseIdle ==
    /\ sheetCols = {}
    /\ allRows = <<>>
    /\ rowIdx = 0
    /\ results = <<>>
    /\ origin = <<>>
    /\ parsePc = "idle"
    /\ parsed = <<>>

\* Payouts the collection may hold, oldest first.
MaxPayouts == 2

Payouts == 1 .. MaxPayouts

\* csvFilePath = null
NoFile == [gen |-> 0, ids |-> {}]

\* The remarks cell not read.
NoRemark == <<>>

\* The full-cycle test not begun, nothing in the collection.
CycleIdle ==
    /\ payStatus = [p \in Payouts |-> "none"]
    /\ csvDir = {}
    /\ run = 0
    /\ cpc = "idle"
    /\ csvFilePath = NoFile
    /\ shouldUpdateDatabase = FALSE
    /\ payoutIds = {}
    /\ csvGenerated = FALSE
    /\ cexc = "none"
    /\ creturning = FALSE
    /\ result = "none"
    /\ prog = {}
    /\ cfailed = {}
    /\ paid = [p \in Payouts |-> 0]
    /\ remark = NoRemark
    /\ cconns = {}
    /\ calerts = <<>>
    /\ dbOps = {}

Init ==
    /\ OtpInit /\ FlowIdle /\ PairIdle /\ ParseIdle /\ CycleIdle /\ SeqIdle
    /\ IngestIdle
    /\ UploadIdle

Running == pc \notin {"done", "failed"}

(***************************************************************************)
(* The capture agent appends a record stamped with the current time.       *)
(***************************************************************************)
Insert ==
    /\ Running
    /\ \A r \in store : r.id \in InsertedIds => now - r.createdAt <= MaxInsertGap
    /\ \E id \in InsertedIds :
         /\ \A r \in store : r.id # id
         /\ \A j \in InsertedIds : j < id => \E r \in store : r.id = j
         /\ store' = store \cup {[id |-> id, otp |-> CodeOf(id), createdAt |-> now]}
    /\ hist' = IF /\ pc \notin {"click", "wait", "exit"}
                  /\ now > startTime
                  /\ now - startTime < TimeoutBudget
               THEN [hist EXCEPT !.inBudget = TRUE]
               ELSE hist
    /\ UNCHANGED besidesOtp
    /\ UNCHANGED <<now, site, pc, clickTime, waitUntil, startTime, otp, ret,
                   found, pollStart, wakeAt, conns, error, typed>>

(***************************************************************************)
(* Time passes, but not past a pending timer or the end of a store call.   *)
(***************************************************************************)
Tick ==
    /\ pc \in {"wait", "sleep", "connect", "find", "close"}
    /\ pc = "wait" => now < waitUntil
    /\ pc = "sleep" => now < wakeAt
    /\ pc \in {"connect", "find", "close"} => now - pollStart < MaxQueryTime
    /\ now' = now + 1
    /\ UNCHANGED besidesOtp
    /\ UNCHANGED <<store, site, pc, clickTime, waitUntil, startTime, otp, ret,
                   found, pollStart, wakeAt, conns, error, typed, hist>>

(***************************************************************************)
(* The flow.                                                               *)
(***************************************************************************)
\* getByRole('button', {name: 'Secure login'}).click(); waitForTimeout(..)
Click ==
    /\ pc = "click"
    /\ clickTime' = now
    /\ waitUntil' = now + WaitAfterClick(site)
    /\ pc' = "wait"
    /\ UNCHANGED besidesOtp
    /\ UNCHANGED <<now, store, site, startTime, otp, ret, found, pollStart,
                   wakeAt, conns, error, typed, hist>>

\* const startTime = Date.now(); let otp = null;
TakeStartTime ==
    /\ pc = "wait"
    /\ now >= waitUntil
    /\ startTime' = now
    /\ otp' = Null
    /\ pc' = "check"
    /\ hist' = [hist EXCEPT !.qualAtStart = Qualifying(store, now) # {}]
    /\ UNCHANGED besidesOtp
    /\ UNCHANGED <<now, store, site, clickTime, waitUntil, ret, found,
                   pollStart, wakeAt, conns, error, typed>>

LoopConditionInclusive(o, elapsed) == o = Null /\ elapsed <= TimeoutBudget

\* !otp && Date.now() - startTime < 60000
LoopCondition(o, elapsed) == o = Null /\ elapsed < TimeoutBudget

\* The loop test passes: fetchLatestOtp(startTime) is called
\* (new MongoClient, client.connect() begins).
LoopEnter ==
    /\ pc = "check"
    /\ LoopCondition(otp, now - startTime)
    /\ pc' = "connect"
    /\ pollStart' = now
    /\ ret' = Null
    /\ hist' = [hist EXCEPT !.polled = TRUE, !.repolled = hist.polled]
    /\ UNCHANGED besidesOtp
    /\ UNCHANGED <<now, store, site, clickTime, waitUntil, startTime, otp,
                   found, wakeAt, conns, error, typed>>

\* The loop test fails: the loop is left.
LoopExit ==
    /\ pc = "check"
    /\ ~LoopCondition(otp, now - startTime)
    /\ pc' = "exit"
    /\ UNCHANGED besidesOtp
    /\ UNCHANGED <<now, store, site, clickTime, waitUntil, startTime, otp, ret,
                   found, pollStart, wakeAt, conns, error, typed, hist>>

\* await client.connect() resolves.
ConnectOk ==
    /\ pc = "connect"
    /\ conns' = conns + 1
    /\ pc' = "find"
    /\ UNCHANGED besidesOtp
    /\ UNCHANGED <<now, store, site, clickTime, waitUntil, startTime, otp, ret,
                   found, pollStart, wakeAt, error, typed, hist>>

\* await client.connect() rejects: catch { return null } finally { close }
ConnectFail ==
    /\ pc = "connect"
    /\ hist.fails < MaxFails
    /\ ret' = Null
    /\ pc' = "close"
    /\ hist' = [hist EXCEPT !.fails = @ + 1]
    /\ UNCHANGED besidesOtp
    /\ UNCHANGED <<now, store, site, clickTime, waitUntil, startTime, otp,
                   found, pollStart, wakeAt, conns, error, typed>>

\* A query that consumes what it finds (findOneAndDelete).
FindOkConsumes ==
    /\ pc = "find"
    /\ \E doc \in FindOneResults(store, startTime) :
         /\ found' = doc
         /\ ret' = OrNull(doc)
         /\ store' = store \ doc
    /\ pc' = "close"
    /\ hist' = [hist EXCEPT !.seenQual = @ \/ Qualifying(store, startTime) # {}]
    /\ UNCHANGED besidesOtp
    /\ UNCHANGED <<now, site, clickTime, waitUntil, startTime, otp,
                   pollStart, wakeAt, conns, error, typed>>

\* findOne(query, {sort: {createdAt: -1}}) resolves; return otp?.otp || null
FindOk ==
    /\ pc = "find"
    /\ \E doc \in FindOneResults(store, startTime) :
         /\ found' = doc
         /\ ret' = OrNull(doc)
    /\ pc' = "close"
    /\ hist' = [hist EXCEPT !.seenQual = @ \/ Qualifying(store, startTime) # {}]
    /\ UNCHANGED besidesOtp
    /\ UNCHANGED <<now, store, site, clickTime, waitUntil, startTime, otp,
                   pollStart, wakeAt, conns, error, typed>>

\* A catch that returns to the loop without the finally block having run.
FindFailSkipsClose ==
    /\ pc = "find"
    /\ hist.fails < MaxFails
    /\ ret' = Null
    /\ otp' = Null
    /\ pc' = "sleep"
    /\ wakeAt' = now + PollInterval
    /\ hist' = [hist EXCEPT !.fails = @ + 1, !.slept = TRUE]
    /\ UNCHANGED besidesOtp
    /\ UNCHANGED <<now, store, site, clickTime, waitUntil, startTime,
                   found, pollStart, conns, error, typed>>

\* findOne rejects: catch { return null }
FindFail ==
    /\ pc = "find"
    /\ hist.fails < MaxFails
    /\ ret' = Null
    /\ pc' = "close"
    /\ hist' = [hist EXCEPT !.fails = @ + 1]
    /\ UNCHANGED besidesOtp
    /\ UNCHANGED <<now, store, site, clickTime, waitUntil, startTime, otp,
                   found, pollStart, wakeAt, conns, error, typed>>

\* A finally block that returns null itself, replacing the code found.
CloseOkDropsResult ==
    /\ pc = "close"
    /\ conns' = 0
    /\ otp' = Null
    /\ pc' = "sleep"
    /\ wakeAt' = now + PollInterval
    /\ hist' = [hist EXCEPT !.slept = TRUE]
    /\ UNCHANGED besidesOtp
    /\ UNCHANGED <<now, store, site, clickTime, waitUntil, startTime, ret,
                   found, pollStart, error, typed>>

\* finally { await client.close() } resolves and fetchLatestOtp returns:
\* otp = await fetchLatestOtp(startTime);
\* if (!otp) await new Promise(r => setTimeout(r, 3000));
CloseOk ==
    /\ pc = "close"
    /\ conns' = 0
    /\ otp' = ret
    /\ IF ret = Null
       THEN /\ pc' = "sleep"
            /\ wakeAt' = now + PollInterval
            /\ hist' = [hist EXCEPT !.slept = TRUE]
       ELSE /\ pc' = "check"
            /\ UNCHANGED <<wakeAt, hist>>
    /\ UNCHANGED besidesOtp
    /\ UNCHANGED <<now, store, site, clickTime, waitUntil, startTime, ret,
                   found, pollStart, error, typed>>

\* finally { await client.close() } rejects: the rejection replaces the
\* return value, fetchLatestOtp rejects and the caller's await throws.
CloseFail ==
    /\ pc = "close"
    /\ error' = "close"
    /\ pc' = "failed"
    /\ UNCHANGED besidesOtp
    /\ UNCHANGED <<now, store, site, clickTime, waitUntil, startTime, otp, ret,
                   found, pollStart, wakeAt, conns, typed, hist>>

\* The setTimeout fires.
Wake ==
    /\ pc = "sleep"
    /\ now >= wakeAt
    /\ pc' = "check"
    /\ UNCHANGED besidesOtp
    /\ UNCHANGED <<now, store, site, clickTime, waitUntil, startTime, otp, ret,
                   found, pollStart, wakeAt, conns, error, typed, hist>>

\* A caller that answers the timeout with another attempt: a new click
\* and a new polling loop.
OtpTimeoutRetries ==
    /\ pc = "exit"
    /\ otp = Null
    /\ error' = "timeout"
    /\ pc' = "click"
    /\ UNCHANGED besidesOtp
    /\ UNCHANGED <<now, store, site, clickTime, waitUntil, startTime, otp, ret,
                   found, pollStart, wakeAt, conns, typed, hist>>

\* if (!otp) throw new Error('OTP not received.');
OtpTimeout ==
    /\ pc = "exit"
    /\ otp = Null
    /\ error' = "timeout"
    /\ pc' = "failed"
    /\ UNCHANGED besidesOtp
    /\ UNCHANGED <<now, store, site, clickTime, waitUntil, startTime, otp, ret,
                   found, pollStart, wakeAt, conns, typed, hist>>

\* getByRole('textbox', {name: 'otpMobile'}).fill(otp)
FillOtp ==
    /\ pc = "exit"
    /\ otp # Null
    /\ typed' = otp
    /\ pc' = "done"
    /\ UNCHANGED besidesOtp
    /\ UNCHANGED <<now, store, site, clickTime, waitUntil, startTime, otp, ret,
                   found, pollStart, wakeAt, conns, error, hist>>

Next ==
    \/ Insert
    \/ Tick
    \/ Click
    \/ TakeStartTime
    \/ LoopEnter
    \/ LoopExit
    \/ ConnectOk
    \/ ConnectFail
    \/ FindOk
    \/ FindFail
    \/ CloseOk
    \/ CloseFail
    \/ Wake
    \/ OtpTimeout
    \/ FillOtp

Spec == Init /\ [][Next]_vars

(***************************************************************************)
(* Properties of the retrieval.                                            *)
(***************************************************************************)
Started == pc \notin {"click", "wait"}

Finished == pc \in {"done", "failed"}

\* Steps of the flow itself (everything but the capture agent).
FlowStep ==
    \/ Tick \/ Click \/ TakeStartTime \/ LoopEnter \/ LoopExit
    \/ ConnectOk \/ FindOk \/ CloseOk \/ CloseFail
    \/ Wake \/ OtpTimeout \/ FillOtp

\* C1: whatever the store holds and whenever the records were written, the
\* code a retrieval gives (the value fetchLatestOtp returns, the loop's otp,
\* the code typed into the portal) is never the code of a record whose
\* createdAt is less than or equal to the reference timestamp.
C1_NeverStaleCode ==
    \A r \in store :
        r.createdAt <= startTime => r.otp \notin {ret, otp, typed}

\* C1 witness: a code was returned while the store held a record created
\* exactly at the reference timestamp and an older one.
C1_Witness ==
    /\ pc = "done"
    /\ \E r \in store : r.createdAt = startTime
    /\ \E r \in store : r.createdAt < startTime

\* C2: the reference timestamp is the instant of the triggering click, so
\* every record the capture agent creates after the click qualifies.
C2_ReferenceIsClickInstant ==
    Started =>
        /\ startTime = clickTime
        /\ \A r \in store :
               (r.id \in InsertedIds /\ r.createdAt > clickTime)
                   => r \in Qualifying(store, startTime)

\* C2 witness: at a call site without a wait the reference timestamp is the
\* click instant and a record created after it was returned.
C2_Witness ==
    /\ pc = "done"
    /\ startTime = clickTime
    /\ \E r \in store : r.id \in InsertedIds /\ r.otp = typed

\* C3 as claimed: while no qualifying record is in the store the retrieval
\* is over no later than timeoutBudget plus one pollInterval after it began.
C3_EndsWithinBudgetPlusOnePoll ==
    (Started /\ Qualifying(store, startTime) = {})
        => now - startTime <= TimeoutBudget + PollInterval

\* C3 amended: while no qualifying record is in the store the retrieval
\* gives no code, never stops before it has ended, ends with the timeout
\* error (or with the error of a failed connection close), and is over in
\* less than timeoutBudget plus one pollInterval plus the duration of one
\* fetchLatestOtp call after it began.
C3_TimeoutBounded ==
    (Started /\ Qualifying(store, startTime) = {})
        => /\ now - startTime < TimeoutBudget + PollInterval + MaxQueryTime
           /\ otp = Null /\ typed = Null /\ pc # "done"
           /\ pc = "failed" => error \in {"timeout", "close"}
           /\ ~Finished => ENABLED FlowStep

\* C3 witness: a retrieval that timed out after its last poll began just
\* inside the budget and took the longest time.
C3_Witness ==
    /\ pc = "failed" /\ error = "timeout"
    /\ Qualifying(store, startTime) = {}
    /\ now - startTime = TimeoutBudget + PollInterval + MaxQueryTime - 1

\* C4: when a qualifying record is in the store as the retrieval starts and
\* the first poll meets no store failure, the retrieval returns a qualifying
\* code from that poll: one fetchLatestOtp call, no sleep, no timeout.
C4_FirstPollReturns ==
    (hist.qualAtStart /\ hist.fails = 0 /\ error # "close")
        => /\ ~hist.repolled /\ ~hist.slept /\ pc # "sleep"
           /\ error # "timeout"
           /\ (hist.polled /\ pc \in {"check", "exit", "done"})
                 => \E r \in Qualifying(store, startTime) : otp = r.otp
           /\ pc = "done" => typed = otp

\* C4 witness: the retrieval is done after its first poll, the qualifying
\* record having been there from the start.
C4_Witness ==
    /\ hist.qualAtStart /\ hist.fails = 0
    /\ pc = "done" /\ typed # Null

\* C5: the document a poll finds is the newest of the records that qualify
\* when the query runs, and its code is what the call returns and the loop
\* receives.
C5_NewestQualifyingWins ==
    [][ /\ (pc = "find" /\ pc' = "close" /\ hist'.fails = hist.fails)
           => /\ Qualifying(store, startTime) # {} => found' # {}
              /\ \A r \in found' :
                    /\ r \in Qualifying(store, startTime)
                    /\ \A q \in Qualifying(store, startTime) :
                           q.createdAt <= r.createdAt
                    /\ ret' = r.otp
        /\ (pc = "close" /\ pc' \in {"check", "sleep"}) => otp' = ret
      ]_vars

\* C5 witness: a poll found a record while an older qualifying record was
\* in the store too.
C5_Witness ==
    /\ pc = "close" /\ found # {}
    /\ \E r \in found : \E q \in Qualifying(store, startTime) :
           q.createdAt < r.createdAt /\ ret = r.otp

\* C6 as claimed (store failures set aside): a retrieval that began without
\* a qualifying record and saw one appended within its budget ends with a
\* code, not with a timeout.
C6_AppendedInBudgetIsReturned ==
    (Finished /\ ~hist.qualAtStart /\ hist.inBudget
        /\ hist.fails = 0 /\ error # "close")
        => otp # Null

\* The instant the first qualifying record was appended.
FirstQualifyingAt ==
    LET S == {r \in Qualifying(store, startTime) : r.id \in InsertedIds}
    IN  (CHOOSE r \in S : \A q \in S : r.createdAt <= q.createdAt).createdAt

\* C6 amended: once the query of a poll has run with a qualifying record in
\* the store, that call returns a code, the loop sleeps no more and the
\* retrieval does not time out; without store failures this is at most one
\* pollInterval plus two fetchLatestOtp calls after the record was appended.
\* A timeout means no query ran after a qualifying record was appended.
C6_NextPollReturns ==
    /\ hist.seenQual =>
          /\ ret # Null
          /\ pc # "sleep" /\ error # "timeout"
          /\ pc \in {"check", "exit", "done"} => otp = ret
    /\ (Started /\ ~hist.qualAtStart /\ hist.fails = 0
           /\ \E r \in Qualifying(store, startTime) : r.id \in InsertedIds)
          => now - FirstQualifyingAt <= PollInterval + 2 * MaxQueryTime

\* C6 witness: the retrieval slept, a qualifying record was appended within
\* the budget, and the next poll returned its code.
C6_Witness ==
    /\ pc = "done" /\ hist.slept /\ hist.inBudget /\ ~hist.qualAtStart
    /\ \E r \in store : r.id \in InsertedIds /\ r.otp = typed

\* C7: a store failure during a poll (connect, query or close failing)
\* never ends the retrieval: it ends only with a code or, once the budget is
\* used up, with the timeout.
C7_StoreFailureNeverEndsRetrieval ==
    /\ pc = "failed" => error = "timeout"
    /\ error = "timeout" => now - startTime >= TimeoutBudget

\* C7 witness: a poll failed in connect or findOne and the retrieval still
\* returned a code afterwards.
C7_Witness ==
    pc = "done" /\ hist.fails > 0

\* The message of the error a login attempt ended with.
ErrorMessage ==
    CASE error = "timeout" -> TimeoutMessage(site)
      [] error = "close"   -> "MongoClient.close rejected"
      [] OTHER             -> ""

\* C11: a retrieval timeout is terminal for its login attempt.  When the
\* loop is left without a code the next step of the flow throws the timeout
\* error of that OTP step; after that no fetchLatestOtp call is begun, no
\* connection is opened, nothing is typed into the portal and the attempt
\* stays failed.  The error carries the message of its own OTP step, which
\* is not the message of any other error the attempt can end with.
C11_TimeoutIsTerminal ==
    [][ /\ (pc = "exit" /\ otp = Null /\ pc' # pc)
            => /\ pc' = "failed" /\ error' = "timeout"
               /\ typed' = Null
               /\ UNCHANGED <<pollStart, conns, hist>>
        /\ error = "timeout"
            => /\ pc' = "failed" /\ error' = "timeout"
               /\ typed' = Null /\ otp' = Null
               /\ UNCHANGED <<pollStart, conns, hist>>
        /\ error' = "timeout"
            => /\ pc' = "failed" /\ conns' = 0 /\ typed' = Null
               /\ ErrorMessage' = TimeoutMessage(site)
               /\ ErrorMessage' # "MongoClient.close rejected"
               /\ \A s \in Sites \ {site} :
                      TimeoutMessage(s) # ErrorMessage'
                      /\ (CurrentStep(s) # "" => CurrentStep(s) # CurrentStep(site))
      ]_vars

\* C11 witness: an attempt that polled more than once has failed with the
\* timeout error, nothing typed, no connection open.
C11_Witness ==
    /\ pc = "failed" /\ error = "timeout"
    /\ hist.repolled /\ typed = Null /\ conns = 0

\* C12: a retrieval leaves the OTP store unchanged.  Every step of the
\* flow and of fetchLatestOtp (a poll that finds a code, finds nothing, or
\* fails in connect, findOne or close) leaves every record as it was; the
\* store changes only when the capture agent appends a record, and then no
\* record is removed or altered.
C12_RetrievalReadOnly ==
    [][ /\ (pc' # pc \/ conns' # conns \/ ret' # ret \/ otp' # otp
               \/ found' # found \/ now' # now \/ typed' # typed)
            => store' = store
        /\ store \subseteq store'
        /\ \A r \in store' \ store : r.id \in InsertedIds /\ r.createdAt = now
      ]_vars

\* C12 witness: an attempt ended with a code after a poll that failed and
\* a poll that found nothing, and the records that were in the store
\* before the attempt are still there.
C12_Witness ==
    /\ pc = "done" /\ hist.fails > 0 /\ hist.slept
    /\ InitialRecords \subseteq store
    /\ found \subseteq store /\ found # {}

\* C14: the retriever holds no store connection between polls or after it
\* returns.  A fetchLatestOtp call opens at most one connection and every
\* path through it (code found, nothing found, connect or query error)
\* passes through client.close(): unless the driver rejected that close
\* call itself, no connection is open while the loop tests its condition,
\* sleeps, or is over.
C14_NoConnectionBetweenPolls ==
    /\ conns \in {0, 1}
    /\ conns = 1 => pc \in {"find", "close"} \/ error = "close"
    /\ (pc \in {"check", "sleep", "exit", "done"}) => conns = 0
    /\ (pc = "failed" /\ error = "timeout") => conns = 0

\* C14 witness: the loop sleeps with no connection open after a poll whose
\* query failed while the connection was open.
C14_Witness ==
    /\ pc = "sleep" /\ conns = 0
    /\ hist.fails > 0 /\ now - pollStart > 0 /\ ret = Null
    /\ found = {} /\ Qualifying(store, startTime) # {}


(***************************************************************************)
(* The tests.  A test is a table from labels to statements; the actions    *)
(* below run the table the way JavaScript runs the statements: a failing   *)
(* statement throws to the catch or finally block that encloses it (`alt'),*)
(* a finally block passes a pending exception or return outwards, and the  *)
(* exception that leaves the test body fails the test.  A step stands for  *)
(* the Playwright, MongoDB or fs calls of the lines named beside it; the   *)
(* OTP steps stand for the polling loop that Spec models.                  *)
(***************************************************************************)
\* Files one run of the statement download processes.
MaxFiles == 1

Flows == {"KotakStatement", "KotakFull", "AxisReport", "AxisUpload"}

Step(n, h)         == [op |-> "step", next |-> n, alt |-> h, arg |-> ""]
StepSet(n, h, f)   == [op |-> "step", next |-> n, alt |-> h, arg |-> f]
Swallow(n, fn)     == [op |-> "swallow", next |-> n, alt |-> fn, arg |-> ""]
Branch(a, b)       == [op |-> "branch", next |-> a, alt |-> b, arg |-> ""]
IfFlag(f, a, b)    == [op |-> "ifflag", next |-> a, alt |-> b, arg |-> f]
Loop(body, n)      == [op |-> "loop", next |-> body, alt |-> n, arg |-> ""]
Alert(k, n, h)     == [op |-> "alert", next |-> n, alt |-> h, arg |-> k]
Throw(h)           == [op |-> "throw", next |-> h, alt |-> h, arg |-> ""]
Rethrow(h)         == [op |-> "rethrow", next |-> h, alt |-> h, arg |-> ""]
Handled(n)         == [op |-> "handled", next |-> n, alt |-> n, arg |-> ""]
Return(h)          == [op |-> "return", next |-> h, alt |-> h, arg |-> ""]
EndFinally(n, h)   == [op |-> "endfinally", next |-> n, alt |-> h, arg |-> ""]

\* tests/Kotak_statementDownload.spec.js: no try block, every throw leaves
\* the test; only the unlinkSync is caught (and logged).
ProgStatement ==
       "S_connect"   :> Step("S_login", "exit")             \* 21-23
    @@ "S_login"     :> Step("S_otp", "exit")               \* 26-33
    @@ "S_otp"       :> Step("S_submit", "exit")            \* 36-42
    @@ "S_submit"    :> Step("S_navigate", "exit")          \* 43-46
    @@ "S_navigate"  :> Step("S_files", "exit")             \* 49-69
    @@ "S_files"     :> Loop("S_download", "S_nextBtn")     \* 75-80
    @@ "S_download"  :> Step("S_parse", "exit")             \* 84-100
    @@ "S_parse"     :> Step("S_docs", "exit")              \* 103-145
    @@ "S_docs"      :> Branch("S_insert", "S_back")        \* 146, 158
    @@ "S_insert"    :> Step("S_unlink", "exit")            \* 147-148
    @@ "S_unlink"    :> Swallow("S_back", "S_back")         \* 151-156
    @@ "S_back"      :> Step("S_files", "exit")             \* 163-166
    @@ "S_nextBtn"   :> Step("S_more", "exit")              \* 170-171
    @@ "S_more"      :> Branch("S_logout", "S_nextClick")   \* 172-175
    @@ "S_nextClick" :> Step("S_files", "exit")             \* 177-179
    @@ "S_logout"    :> Step("S_close", "exit")             \* 184-187
    @@ "S_close"     :> Step("exit", "exit")                \* 189-190

\* tests/kotak-new.spec.js
ProgKotak ==
       "K_cleanup"    :> Step("K_hasCsv", "exit")                   \* 141
    @@ "K_hasCsv"     :> Branch("K_latest", "K_newClient")          \* 144, 150
    @@ "K_latest"     :> Step("K_launch", "exit")                   \* 146-149
    @@ "K_newClient"  :> Step("K_connect", "exit")                  \* 153-154
    @@ "K_connect"    :> Step("K_find", "K_catch1")                 \* 156-160
    @@ "K_find"       :> Step("K_empty", "K_catch1")                \* 163-166
    @@ "K_empty"      :> Branch("K_return1", "K_format")            \* 168
    @@ "K_return1"    :> Return("K_fin1")                           \* 169-170
    @@ "K_format"     :> StepSet("K_write", "K_catch1", "shouldUpdateDatabase")  \* 175-202
    @@ "K_write"      :> StepSet("K_fin1", "K_catch1", "csvGenerated")  \* 205-207
    @@ "K_catch1"     :> Alert("failure", "K_rethrow1", "K_fin1")   \* 209-211
    @@ "K_rethrow1"   :> Rethrow("K_fin1")                          \* 212
    @@ "K_fin1"       :> Step("K_endFin1", "exit")                  \* 213-215
    @@ "K_endFin1"    :> EndFinally("K_generated", "exit")          \* 216
    @@ "K_generated"  :> IfFlag("csvGenerated", "K_launch", "K_return2")  \* 218
    @@ "K_return2"    :> Return("exit")                             \* 219-220
    @@ "K_launch"     :> Step("K_loginA", "exit")                   \* 229-233
    @@ "K_loginA"     :> Step("K_otpA", "K_catch2")                 \* 237-245
    @@ "K_otpA"       :> Step("K_submitA", "K_catch2")              \* 248-256
    @@ "K_submitA"    :> Step("K_uploadPage", "K_catch2")           \* 258-262
    @@ "K_uploadPage" :> Step("K_fileSelect", "K_catch2")           \* 265-275
    @@ "K_fileSelect" :> Step("K_verify", "K_catch2")               \* 278-286
    @@ "K_verify"     :> Step("K_remark", "K_catch2")               \* 289-301
    @@ "K_remark"     :> Branch("K_loginB", "K_issueAlert")         \* 303-305
    @@ "K_issueAlert" :> Alert("failure", "K_issueThrow", "K_catch2")  \* 306-307
    @@ "K_issueThrow" :> Throw("K_catch2")                          \* 308
    @@ "K_loginB"     :> Step("K_otpB", "K_catch2")                 \* 312-322
    @@ "K_otpB"       :> Step("K_submitB", "K_catch2")              \* 325-333
    @@ "K_submitB"    :> Step("K_approve", "K_catch2")              \* 335-339
    @@ "K_approve"    :> Step("K_otpC", "K_catch2")                 \* 342-352
    @@ "K_otpC"       :> Step("K_submitC", "K_catch2")              \* 355-363
    @@ "K_submitC"    :> Step("K_should", "K_catch2")               \* 365-377
    @@ "K_should"     :> IfFlag("shouldUpdateDatabase", "K_newClient3", "K_delete")  \* 382
    @@ "K_newClient3" :> Step("K_connect3", "K_catch2")             \* 383-384
    @@ "K_connect3"   :> Step("K_update", "K_catch3")               \* 385-388
    @@ "K_update"     :> Step("K_fin3", "K_catch3")                 \* 391-395
    @@ "K_catch3"     :> Alert("failure", "K_handled3", "K_fin3")   \* 396-398
    @@ "K_handled3"   :> Handled("K_fin3")                          \* 399-400
    @@ "K_fin3"       :> Step("K_endFin3", "K_catch2")              \* 400-401
    @@ "K_endFin3"    :> EndFinally("K_delete", "K_catch2")         \* 402-403
    @@ "K_delete"     :> Swallow("K_fin2", "K_fin2")                \* 406-408, 93-102
    @@ "K_catch2"     :> Alert("failure", "K_rethrow2", "K_fin2")   \* 410-412
    @@ "K_rethrow2"   :> Rethrow("K_fin2")                          \* 413
    @@ "K_fin2"       :> Step("K_endFin2", "exit")                  \* 414-415
    @@ "K_endFin2"    :> EndFinally("exit", "exit")                 \* 416

\* unnamed/part_000 (axis-report-download.spec.js)
ProgAxisReport ==
       "R_launch"       :> StepSet("R_context", "R_catch", "browser")  \* 105
    @@ "R_context"      :> Step("R_newClient", "R_catch")            \* 106-107
    @@ "R_newClient"    :> StepSet("R_connect", "R_catch", "client")     \* 110-111
    @@ "R_connect"      :> Step("R_login", "R_catch")                \* 112-113
    @@ "R_login"        :> Step("R_manualOtp", "R_catch")            \* 116-127
    @@ "R_manualOtp"    :> Step("R_generate", "R_catch")             \* 130-132
    @@ "R_generate"     :> Step("R_download", "R_catch")             \* 135-149
    @@ "R_download"     :> Step("R_parse", "R_catch")                \* 152-163
    @@ "R_parse"        :> Swallow("R_docs", "R_success")            \* 166-167, 30-97
    @@ "R_docs"         :> Branch("R_insert", "R_success")           \* 169, 180-182
    @@ "R_insert"       :> Step("R_unlink", "R_catch")               \* 170-171
    @@ "R_unlink"       :> Swallow("R_success", "R_success")         \* 174-179
    @@ "R_success"      :> Alert("success", "R_fin", "R_catch")      \* 184-186
    @@ "R_catch"        :> Alert("failure", "R_rethrow", "R_fin")    \* 187-192
    @@ "R_rethrow"      :> Rethrow("R_fin")                          \* 193
    @@ "R_fin"          :> IfFlag("client", "R_closeClient", "R_fin2")   \* 194-195
    @@ "R_closeClient"  :> Step("R_fin2", "exit")                    \* 195
    @@ "R_fin2"         :> IfFlag("browser", "R_closeBrowser", "R_endFin")  \* 196
    @@ "R_closeBrowser" :> Step("R_endFin", "exit")                  \* 196
    @@ "R_endFin"       :> EndFinally("exit", "exit")                \* 197

\* unnamed/part_001 (the Axis upload test)
ProgAxisUpload ==
       "U_readdir"   :> Step("U_excel", "U_catch")                \* 93-95
    @@ "U_excel"     :> Branch("U_noExcel", "U_goto")             \* 97, 103
    @@ "U_noExcel"   :> Alert("warning", "U_return", "U_catch")   \* 98-99
    @@ "U_return"    :> Return("exit")                            \* 100
    @@ "U_goto"      :> Step("U_corpId", "U_catch")               \* 110-117
    @@ "U_corpId"    :> Step("U_password", "U_catch")             \* 119-129
    @@ "U_password"  :> Step("U_manualOtp", "U_catch")            \* 131-137
    @@ "U_manualOtp" :> Step("U_payments", "U_catch")             \* 140-142
    @@ "U_payments"  :> Step("U_configure", "U_catch")            \* 145-156
    @@ "U_configure" :> Step("U_latest", "U_catch")               \* 159-164
    @@ "U_latest"    :> Step("U_upload", "U_catch")               \* 167-169, 38-54
    @@ "U_upload"    :> Step("U_validate", "U_catch")             \* 171-181
    @@ "U_validate"  :> Step("U_payOtp", "U_catch")               \* 184-192
    @@ "U_payOtp"    :> Step("U_verify", "U_catch")               \* 195-197
    @@ "U_verify"    :> Step("U_paid", "U_vcatch")                \* 200-203
    @@ "U_paid"      :> Alert("success", "U_back", "U_vcatch")    \* 205
    @@ "U_vcatch"    :> Alert("failure", "U_vhandled", "U_catch") \* 207-209
    @@ "U_vhandled"  :> Handled("U_back")                         \* 210
    @@ "U_back"      :> Step("exit", "U_catch")                   \* 212-215
    @@ "U_catch"     :> Alert("failure", "U_rethrow", "exit")     \* 218-221
    @@ "U_rethrow"   :> Rethrow("exit")                           \* 222-223

Prog == ProgStatement @@ ProgKotak @@ ProgAxisReport @@ ProgAxisUpload

\* The first statement of each test.
Entry(f) ==
    CASE f = "KotakStatement" -> "S_connect"
      [] f = "KotakFull"      -> "K_cleanup"
      [] f = "AxisReport"     -> "R_launch"
      [] f = "AxisUpload"     -> "U_readdir"

\* The tests whose file registers test.afterEach (part_000 has none).
HasAfterEach(f) == f \in {"KotakStatement", "KotakFull", "AxisUpload"}

(***************************************************************************)
(* Running a test.                                                         *)
(***************************************************************************)
FlowInit ==
    /\ flow \in Flows
    /\ ip = Entry(flow)
    /\ exc = "none"
    /\ returning = FALSE
    /\ status = "running"
    /\ flags = {}
    /\ iter = 0
    /\ alerts = <<>>
    /\ env \in [token : {"", "set"}, chatId : {"", "set"}]
    /\ tg = NoCall
    /\ failed = {}

\* The OTP variables of a state in which no retrieval runs.
OtpIdle ==
    /\ now = StartClock
    /\ store = {}
    /\ site = "none"
    /\ pc = "done"
    /\ clickTime = 0
    /\ waitUntil = 0
    /\ startTime = 0
    /\ otp = Null
    /\ ret = Null
    /\ found = {}
    /\ pollStart = 0
    /\ wakeAt = 0
    /\ conns = 0
    /\ error = "none"
    /\ typed = Null
    /\ hist = Hist0

\* The statement about to run, when the test body is running and no
\* sendTelegramAlert call is in progress.
AtOp(o) ==
    /\ status = "running"
    /\ tg.pc = "idle"
    /\ ip \in DOMAIN Prog
    /\ Prog[ip].op = o

\* A step completes.
StepOk ==
    /\ AtOp("step")
    /\ ip' = Prog[ip].next
    /\ flags' = IF Prog[ip].arg = "" THEN flags ELSE flags \cup {Prog[ip].arg}
    /\ UNCHANGED <<flow, exc, returning, status, iter, alerts, env, tg, failed>>
    /\ UNCHANGED besidesFlow

\* A step throws: control goes to the enclosing catch or finally block, or
\* leaves the test.  An exception thrown in a finally block replaces the
\* pending one and a pending return.
StepFail ==
    /\ AtOp("step")
    /\ exc' = ip
    /\ returning' = FALSE
    /\ ip' = Prog[ip].alt
    /\ failed' = failed \cup {ip}
    /\ UNCHANGED <<flow, status, flags, iter, alerts, env, tg>>
    /\ UNCHANGED besidesFlow

\* A call whose own try/catch only logs the error.
SwallowOk ==
    /\ AtOp("swallow")
    /\ ip' = Prog[ip].next
    /\ UNCHANGED <<flow, exc, returning, status, flags, iter, alerts, env, tg,
                   failed>>
    /\ UNCHANGED besidesFlow

SwallowFail ==
    /\ AtOp("swallow")
    /\ ip' = Prog[ip].alt
    /\ failed' = failed \cup {ip}
    /\ UNCHANGED <<flow, exc, returning, status, flags, iter, alerts, env, tg>>
    /\ UNCHANGED besidesFlow

\* An if on what the portal, the directory or the database holds.
ExecBranch ==
    /\ AtOp("branch")
    /\ ip' \in {Prog[ip].next, Prog[ip].alt}
    /\ UNCHANGED <<flow, exc, returning, status, flags, iter, alerts, env, tg,
                   failed>>
    /\ UNCHANGED besidesFlow

\* An if on a variable of the test.
ExecIfFlag ==
    /\ AtOp("ifflag")
    /\ ip' = IF Prog[ip].arg \in flags THEN Prog[ip].next ELSE Prog[ip].alt
    /\ UNCHANGED <<flow, exc, returning, status, flags, iter, alerts, env, tg,
                   failed>>
    /\ UNCHANGED besidesFlow

\* for (let i = 0; i < fileCount; i++): another file, or the loop ends.
ExecLoop ==
    /\ AtOp("loop")
    /\ \/ /\ iter < MaxFiles
          /\ iter' = iter + 1
          /\ ip' = Prog[ip].next
       \/ /\ ip' = Prog[ip].alt
          /\ UNCHANGED iter
    /\ UNCHANGED <<flow, exc, returning, status, flags, alerts, env, tg, failed>>
    /\ UNCHANGED besidesFlow

\* await sendTelegramAlert(message): the call begins.
ExecAlert ==
    /\ AtOp("alert")
    /\ alerts' = Append(alerts, [kind |-> Prog[ip].arg, at |-> ip])
    /\ tg' = [NoCall EXCEPT !.pc = "entry", !.kind = Prog[ip].arg,
                            !.ret = Prog[ip].next, !.alt = Prog[ip].alt]
    /\ UNCHANGED <<flow, ip, exc, returning, status, flags, iter, env, failed>>
    /\ UNCHANGED besidesFlow

\* throw new Error(...)
ExecThrow ==
    /\ AtOp("throw")
    /\ exc' = ip
    /\ ip' = Prog[ip].alt
    /\ failed' = failed \cup {ip}
    /\ UNCHANGED <<flow, returning, status, flags, iter, alerts, env, tg>>
    /\ UNCHANGED besidesFlow

\* throw err at the end of a catch block.
ExecRethrow ==
    /\ AtOp("rethrow")
    /\ ip' = Prog[ip].alt
    /\ UNCHANGED <<flow, exc, returning, status, flags, iter, alerts, env, tg,
                   failed>>
    /\ UNCHANGED besidesFlow

\* The end of a catch block that does not throw: the exception is handled.
ExecHandled ==
    /\ AtOp("handled")
    /\ exc' = "none"
    /\ ip' = Prog[ip].next
    /\ UNCHANGED <<flow, returning, status, flags, iter, alerts, env, tg, failed>>
    /\ UNCHANGED besidesFlow

\* return; inside the test body: the finally blocks run, then the test ends.
ExecReturn ==
    /\ AtOp("return")
    /\ returning' = TRUE
    /\ ip' = Prog[ip].alt
    /\ UNCHANGED <<flow, exc, status, flags, iter, alerts, env, tg, failed>>
    /\ UNCHANGED besidesFlow

\* The end of a finally block: a pending exception or return goes on
\* outwards, otherwise the statement after the try runs.
ExecEndFinally ==
    /\ AtOp("endfinally")
    /\ ip' = IF exc # "none" \/ returning THEN Prog[ip].alt ELSE Prog[ip].next
    /\ UNCHANGED <<flow, exc, returning, status, flags, iter, alerts, env, tg,
                   failed>>
    /\ UNCHANGED besidesFlow

\* The test body is left: it passed unless an exception left it.
TestEnds ==
    /\ status = "running"
    /\ tg.pc = "idle"
    /\ ip = "exit"
    /\ status' = IF exc = "none" THEN "passed" ELSE "failed"
    /\ ip' = "afterEach"
    /\ UNCHANGED <<flow, exc, returning, flags, iter, alerts, env, tg, failed>>
    /\ UNCHANGED besidesFlow

\* test.afterEach: if (testInfo.status !== testInfo.expectedStatus)
\*                    await sendTelegramAlert(messageToSend);
AfterEach ==
    /\ ip = "afterEach"
    /\ tg.pc = "idle"
    /\ IF HasAfterEach(flow) /\ status # "passed"
       THEN /\ alerts' = Append(alerts, [kind |-> "failure", at |-> ip])
            /\ tg' = [NoCall EXCEPT !.pc = "entry", !.kind = "failure",
                                    !.ret = "end", !.alt = "end"]
            /\ UNCHANGED ip
       ELSE /\ ip' = "end"
            /\ UNCHANGED <<alerts, tg>>
    /\ UNCHANGED <<flow, exc, returning, status, flags, iter, env, failed>>
    /\ UNCHANGED besidesFlow

(***************************************************************************)
(* utils/sendTelegram.js: sendTelegramAlert(message).                      *)
(***************************************************************************)
\* The statements inside try { ... } catch (err) { console.error(...) }.
TgTryBlockWithoutText == {"fetch"}

TgTryBlock == {"fetch", "text"}

\* An awaited promise rejects at statement `at': inside the try block the
\* catch logs it and the function returns, outside it the call rejects.
TgRaise(call, at) ==
    IF at \in TgTryBlock
    THEN [call EXCEPT !.pc = "return", !.log = "requestFailed",
                      !.result = "resolved"]
    ELSE [call EXCEPT !.pc = "return", !.result = "rejected"]

\* if (!token || !chatId) { console.error(...); return; }
TgCheckEnv ==
    /\ tg.pc = "entry"
    /\ tg' = IF env.token = "" \/ env.chatId = ""
             THEN [tg EXCEPT !.pc = "return", !.outcome = "missing",
                             !.log = "missing", !.result = "resolved"]
             ELSE [tg EXCEPT !.pc = "fetch"]
    /\ UNCHANGED <<flow, ip, exc, returning, status, flags, iter, alerts, env,
                   failed>>
    /\ UNCHANGED besidesFlow

\* const res = await fetch(url, {...}) resolves with res.ok:
\* console.log('Telegram alert sent.')
TgFetchOk ==
    /\ tg.pc = "fetch"
    /\ tg' = [tg EXCEPT !.pc = "return", !.reqs = @ + 1, !.outcome = "ok",
                        !.log = "sent", !.result = "resolved"]
    /\ UNCHANGED <<flow, ip, exc, returning, status, flags, iter, alerts, env,
                   failed>>
    /\ UNCHANGED besidesFlow

\* fetch resolves with !res.ok: const errText = await res.text() is next.
TgFetchNotOk ==
    /\ tg.pc = "fetch"
    /\ tg' = [tg EXCEPT !.pc = "text", !.reqs = @ + 1, !.outcome = "notOk"]
    /\ UNCHANGED <<flow, ip, exc, returning, status, flags, iter, alerts, env,
                   failed>>
    /\ UNCHANGED besidesFlow

\* fetch rejects (network failure).
TgFetchReject ==
    /\ tg.pc = "fetch"
    /\ tg' = TgRaise([tg EXCEPT !.reqs = @ + 1, !.outcome = "netFail"], "fetch")
    /\ UNCHANGED <<flow, ip, exc, returning, status, flags, iter, alerts, env,
                   failed>>
    /\ UNCHANGED besidesFlow

\* res.text() resolves: console.error('Telegram API error:', errText)
TgTextOk ==
    /\ tg.pc = "text"
    /\ tg' = [tg EXCEPT !.pc = "return", !.log = "apiError",
                        !.result = "resolved"]
    /\ UNCHANGED <<flow, ip, exc, returning, status, flags, iter, alerts, env,
                   failed>>
    /\ UNCHANGED besidesFlow

\* res.text() rejects (the body cannot be read).
TgTextReject ==
    /\ tg.pc = "text"
    /\ tg' = TgRaise(tg, "text")
    /\ UNCHANGED <<flow, ip, exc, returning, status, flags, iter, alerts, env,
                   failed>>
    /\ UNCHANGED besidesFlow

\* The caller's await ends: the next statement runs, or, had the call
\* rejected, the caller's handler.
TgReturn ==
    /\ tg.pc = "return"
    /\ IF tg.result = "rejected"
       THEN /\ ip' = tg.alt
            /\ exc' = IF status = "running" THEN ip ELSE exc
            /\ failed' = failed \cup {ip}
       ELSE /\ ip' = tg.ret
            /\ UNCHANGED <<exc, failed>>
    /\ tg' = [tg EXCEPT !.pc = "idle"]
    /\ UNCHANGED <<flow, returning, status, flags, iter, alerts, env>>
    /\ UNCHANGED besidesFlow

FlowNext ==
    \/ StepOk
    \/ StepFail
    \/ SwallowOk
    \/ SwallowFail
    \/ ExecBranch
    \/ ExecIfFlag
    \/ ExecLoop
    \/ ExecAlert
    \/ ExecThrow
    \/ ExecRethrow
    \/ ExecHandled
    \/ ExecReturn
    \/ ExecEndFinally
    \/ TestEnds
    \/ AfterEach
    \/ TgCheckEnv
    \/ TgFetchOk
    \/ TgFetchNotOk
    \/ TgFetchReject
    \/ TgTextOk
    \/ TgTextReject
    \/ TgReturn

InitFlows ==
    /\ OtpIdle /\ FlowInit /\ PairIdle /\ ParseIdle /\ CycleIdle /\ SeqIdle
    /\ IngestIdle
    /\ UploadIdle

SpecFlows == InitFlows /\ [][FlowNext]_vars

(***************************************************************************)
(* Properties of the tests and of sendTelegramAlert.                       *)
(***************************************************************************)
RunEnded == ip = "end"

FailureAlerts == {i \in 1 .. Len(alerts) : alerts[i].kind = "failure"}

TgStep ==
    \/ TgCheckEnv \/ TgFetchOk \/ TgFetchNotOk \/ TgFetchReject
    \/ TgTextOk \/ TgTextReject \/ TgReturn

\* C8: a run that ends in failure has called sendTelegramAlert exactly
\* once: not zero times, not twice or more.
C8_ExactlyOneAlertPerFailedRun ==
    (RunEnded /\ status = "failed") => Len(alerts) = 1

\* C8 witness: a failed run of the Kotak statement download, whose only
\* alert is the one of the afterEach hook.
C8_Witness ==
    /\ RunEnded /\ status = "failed" /\ flow = "KotakStatement"
    /\ Len(alerts) = 1

\* C9: when any step of a run failed (store connection, login, OTP,
\* navigation, download, parsing, database write, cleanup), the alert sink
\* has been called with a failure message by the time the run ends.
C9_FailureLeadsToFailureAlert ==
    (RunEnded /\ failed # {}) => FailureAlerts # {}

\* C9 witness: a run in which a step failed and a failure alert was sent.
C9_Witness ==
    RunEnded /\ failed # {} /\ FailureAlerts # {}

\* C10: a sendTelegramAlert call never rejects; it makes at most one HTTP
\* request (none without token or chat id, no retry), logs every failed
\* delivery locally and always runs to its end.
C10_AlertNeverThrows ==
    /\ tg.result # "rejected"
    /\ tg.reqs <= 1
    /\ (env.token = "" \/ env.chatId = "") => tg.reqs = 0
    /\ tg.pc \in {"return", "idle"} =>
          /\ tg.outcome = "missing" => tg.log = "missing" /\ tg.reqs = 0
          /\ tg.outcome = "notOk" =>
                tg.log \in {"apiError", "requestFailed"} /\ tg.reqs = 1
          /\ tg.outcome = "netFail" => tg.log = "requestFailed" /\ tg.reqs = 1
          /\ tg.outcome = "ok" => tg.log = "sent" /\ tg.reqs = 1
    /\ tg.pc = "return" => tg.result = "resolved"
    /\ tg.pc # "idle" => ENABLED TgStep
    /\ \A l \in failed : l \in DOMAIN Prog /\ Prog[l].op # "alert"

\* C10 witness: calls have returned normally after a missing token, after a
\* network failure and after a non-OK response whose body could not be read.
C10_Witness ==
    /\ tg.pc = "idle" /\ tg.result = "resolved"
    /\ tg.outcome = "notOk" /\ tg.log = "requestFailed"
    /\ Len(alerts) >= 2

(***************************************************************************)
(* Two login attempts at once (two tests run by two workers, or two bank   *)
(* accounts): each runs its own polling loop with its own startTime, each  *)
(* fetchLatestOtp call makes its own MongoClient, and all of them read the *)
(* one otps collection.  A store call takes no time here; what matters is  *)
(* how the steps of the two loops interleave.                              *)
(***************************************************************************)
\* How long after the first instant an attempt may take its startTime.
MaxStartDelay == 1
\* How long after the first instant the capture agent may append records.
MaxInsertDelay == 4

PairInit ==
    /\ now = StartClock
    /\ store \in {{}, InitialRecords}
    /\ site = "none"
    /\ pc = "done"
    /\ clickTime = 0
    /\ waitUntil = 0
    /\ startTime = 0
    /\ otp = Null
    /\ ret = Null
    /\ found = {}
    /\ pollStart = 0
    /\ wakeAt = 0
    /\ conns = 0
    /\ error = "none"
    /\ typed = Null
    /\ hist = Hist0
    /\ PairIdle
    /\ SeqIdle
    /\ IngestIdle
    /\ UploadIdle
    /\ FlowIdle
    /\ ParseIdle
    /\ CycleIdle

PairOver(i) == rs[i].pc \in {"done", "timeout", "failed"}

\* The capture agent appends a record stamped with the current time.
PInsert ==
    /\ \E i \in Retrievers : ~PairOver(i)
    /\ now - StartClock <= MaxInsertDelay
    /\ \E id \in InsertedIds :
         /\ \A r \in store : r.id # id
         /\ \A j \in InsertedIds : j < id => \E r \in store : r.id = j
         /\ store' = store \cup {[id |-> id, otp |-> CodeOf(id), createdAt |-> now]}
    /\ UNCHANGED <<now, otpRest, besidesPair, pairVars>>

\* Time passes while every loop sleeps, is over or has not begun.
PTick ==
    /\ \E i \in Retrievers : ~PairOver(i)
    /\ \A i \in Retrievers :
         /\ rs[i].pc \in {"start", "sleep", "done", "timeout", "failed"}
         /\ rs[i].pc = "sleep" => now < rs[i].wakeAt
         /\ rs[i].pc = "start" => now < StartClock + MaxStartDelay
    /\ now' = now + 1
    /\ UNCHANGED <<store, otpRest, besidesPair, pairVars>>

\* const startTime = Date.now(); let otp = null;
PStart(i) ==
    /\ rs[i].pc = "start"
    /\ rs' = [rs EXCEPT ![i].startTime = now, ![i].otp = Null,
                        ![i].pc = "check"]
    /\ UNCHANGED <<otpVars, besidesPair>>

\* The loop test passes: fetchLatestOtp(startTime) is called.
PLoopEnter(i) ==
    /\ rs[i].pc = "check"
    /\ LoopCondition(rs[i].otp, now - rs[i].startTime)
    /\ rs' = [rs EXCEPT ![i].pc = "connect", ![i].ret = Null]
    /\ UNCHANGED <<otpVars, besidesPair>>

\* The loop test fails; if (!otp) throw new Error(...).
PLoopExit(i) ==
    /\ rs[i].pc = "check"
    /\ ~LoopCondition(rs[i].otp, now - rs[i].startTime)
    /\ rs' = [rs EXCEPT ![i].pc = IF rs[i].otp = Null THEN "timeout"
                                                      ELSE "done"]
    /\ UNCHANGED <<otpVars, besidesPair>>

\* const client = new MongoClient(..); await client.connect() resolves.
PConnectOk(i) ==
    /\ rs[i].pc = "connect"
    /\ rs' = [rs EXCEPT ![i].pc = "find", ![i].conns = 1]
    /\ UNCHANGED <<otpVars, besidesPair>>

\* connect or findOne rejects: catch { return null }.  At most one poll of
\* the two attempts fails.
PCallFail(i) ==
    /\ rs[i].pc \in {"connect", "find"}
    /\ \A j \in Retrievers : rs[j].fails = 0
    /\ rs' = [rs EXCEPT ![i].pc = "close", ![i].ret = Null,
                        ![i].fails = @ + 1]
    /\ UNCHANGED <<otpVars, besidesPair>>

\* A reference timestamp kept in one module-level variable that every
\* caller overwrites: the query runs with the latest one.
PFindOkSharedReference(i) ==
    /\ rs[i].pc = "find"
    /\ LET T == CHOOSE t \in {rs[j].startTime : j \in Retrievers} :
                    \A j \in Retrievers : rs[j].startTime <= t
       IN  \E doc \in FindOneResults(store, T) :
               rs' = [rs EXCEPT ![i].pc = "close", ![i].found = doc,
                                ![i].ret = OrNull(doc)]
    /\ UNCHANGED <<otpVars, besidesPair>>

\* findOne(query, {sort: {createdAt: -1}}) resolves; return otp?.otp || null
PFindOk(i) ==
    /\ rs[i].pc = "find"
    /\ \E doc \in FindOneResults(store, rs[i].startTime) :
         rs' = [rs EXCEPT ![i].pc = "close", ![i].found = doc,
                          ![i].ret = OrNull(doc)]
    /\ UNCHANGED <<otpVars, besidesPair>>

\* finally { await client.close() } resolves; otp = the value returned;
\* if (!otp) await new Promise(r => setTimeout(r, 3000));
PCloseOk(i) ==
    /\ rs[i].pc = "close"
    /\ rs' = [rs EXCEPT ![i].conns = 0, ![i].otp = rs[i].ret,
                        ![i].pc = IF rs[i].ret = Null THEN "sleep" ELSE "check",
                        ![i].wakeAt = IF rs[i].ret = Null
                                      THEN now + PollInterval ELSE @]
    /\ UNCHANGED <<otpVars, besidesPair>>

\* finally { await client.close() } rejects: the caller's await throws.
PCloseFail(i) ==
    /\ rs[i].pc = "close"
    /\ rs' = [rs EXCEPT ![i].pc = "failed"]
    /\ UNCHANGED <<otpVars, besidesPair>>

\* The setTimeout fires.
PWake(i) ==
    /\ rs[i].pc = "sleep"
    /\ now >= rs[i].wakeAt
    /\ rs' = [rs EXCEPT ![i].pc = "check"]
    /\ UNCHANGED <<otpVars, besidesPair>>

PairNext ==
    \/ PInsert
    \/ PTick
    \/ \E i \in Retrievers : PStart(i)
    \/ \E i \in Retrievers : PLoopEnter(i)
    \/ \E i \in Retrievers : PLoopExit(i)
    \/ \E i \in Retrievers : PConnectOk(i)
    \/ \E i \in Retrievers : PCallFail(i)
    \/ \E i \in Retrievers : PFindOk(i)
    \/ \E i \in Retrievers : PCloseOk(i)
    \/ \E i \in Retrievers : PCloseFail(i)
    \/ \E i \in Retrievers : PWake(i)

SpecPair == PairInit /\ [][PairNext]_vars

\* The newest of the records that qualify for reference timestamp T.
NewestQualifying(S, T) ==
    {r \in Qualifying(S, T) : \A q \in Qualifying(S, T) : q.createdAt <= r.createdAt}

\* C13: concurrent retrievals do not interfere and nothing is consumed.  A
\* step of one retrieval changes neither the other retrieval nor the store;
\* the document a poll finds is the newest record that qualifies for the
\* poll's own reference timestamp in the store as it is, whatever the other
\* retrieval has done or returned, and that record's code is what the poll
\* gives its loop; so a record newer than both reference timestamps can be
\* returned to both.
C13_RetrievalsIndependent ==
    [][ \A i \in Retrievers :
          /\ rs'[i] # rs[i]
                => /\ store' = store
                   /\ \A j \in Retrievers \ {i} : rs'[j] = rs[j]
          /\ (rs[i].pc = "find" /\ rs'[i].pc = "close"
                 /\ rs'[i].fails = rs[i].fails)
                => /\ IF Qualifying(store, rs[i].startTime) = {}
                      THEN rs'[i].found = {} /\ rs'[i].ret = Null
                      ELSE \E r \in NewestQualifying(store, rs[i].startTime) :
                               rs'[i].found = {r} /\ rs'[i].ret = r.otp
          /\ (rs[i].pc = "close" /\ rs'[i].pc \in {"check", "sleep"})
                => rs'[i].otp = rs[i].ret
          /\ rs'[i].pc = "done"
                => \E r \in Qualifying(store, rs[i].startTime) :
                       r.otp = rs'[i].otp
      ]_vars

\* C13 witness: two retrievals with different reference timestamps have
\* both ended with the code of the same record, newer than both.
C13_Witness ==
    /\ \A i \in Retrievers : rs[i].pc = "done"
    /\ rs[1].startTime # rs[2].startTime
    /\ rs[1].otp = rs[2].otp
    /\ \E r \in store :
          /\ r.otp = rs[1].otp
          /\ \A i \in Retrievers : r.createdAt > rs[i].startTime

(***************************************************************************)
(* unnamed/part_000: parseAxisBankReport(filePath).                        *)
(*                                                                         *)
(* A cell is a string.  sheet_to_json (range 15, defval '', raw false)     *)
(* gives one object per data row with a key for every column of the header *)
(* row: an empty cell is '', and a column the sheet does not have is       *)
(* undefined in every row.  The model keeps four of the twelve columns:    *)
(* the two that are tested, Amount, and Status for the nine that are       *)
(* copied with || ''.                                                      *)
(***************************************************************************)
\* Data rows of a sheet.
MaxRows == 3

Undefined == "undefined"

Columns == <<"Transaction Date", "Beneficiary Name", "Amount", "Status">>

\* The header rows a downloaded sheet may have.
SheetColumns ==
    { {"Transaction Date", "Beneficiary Name", "Amount", "Status"},
      {"Transaction Date", "Beneficiary Name"} }

MkRow(d, n, a, st) ==
    [c \in {"Transaction Date", "Beneficiary Name", "Amount", "Status"} |->
        CASE c = "Transaction Date" -> d
          [] c = "Beneficiary Name" -> n
          [] c = "Amount"           -> a
          [] c = "Status"           -> st]

\* The rows a sheet is made of.
SampleRows ==
    { MkRow("01-02-2025", "Asha", "1,250.50", "Success"),
      MkRow("01-02-2025", "", "1,250.50", "Success"),
      MkRow("01-02-2025", "Asha", "", ""),
      MkRow("Payment Type Summary", "", "", ""),
      MkRow("Payment Type", "Summary", "", ""),
      MkRow("01-02-2025", "Payment Type", "", "Summary"),
      MkRow("", "", "", "") }

RECURSIVE SeqsUpTo(_, _)
SeqsUpTo(S, n) ==
    IF n = 0 THEN {<<>>}
    ELSE LET shorter == SeqsUpTo(S, n - 1)
         IN  shorter \cup {Append(q, x) : q \in shorter, x \in S}

\* row[col]: undefined for a column the sheet does not have.
Cell(cols, row, col) == IF col \in cols THEN row[col] ELSE Undefined

\* JavaScript truthiness of a cell.
Falsy(v) == v \in {"", Undefined, Null}

\* String.prototype.toLowerCase, then the words between single spaces.
LowerWords(text) ==
    CASE text = ""                     -> <<"">>
      [] text = "01-02-2025"           -> <<"01-02-2025">>
      [] text = "Asha"                 -> <<"asha">>
      [] text = "1,250.50"             -> <<"1,250.50">>
      [] text = "Success"              -> <<"success">>
      [] text = "Payment Type Summary" -> <<"payment", "type", "summary">>
      [] text = "Payment Type"         -> <<"payment", "type">>
      [] text = "Summary"              -> <<"summary">>

RECURSIVE JoinLower(_, _, _)
\* Object.values(row).join(' ').toLowerCase(), as words: the cells of the
\* columns the row has, in column order; an empty cell leaves two spaces
\* in a row, written as an empty word.
JoinLower(cols, row, k) ==
    IF k > Len(Columns) THEN <<>>
    ELSE IF Columns[k] \in cols
         THEN LowerWords(row[Columns[k]]) \o JoinLower(cols, row, k + 1)
         ELSE JoinLower(cols, row, k + 1)

\* const stopMarkers = [...]
stopMarkers ==
    { <<"payment", "type", "summary">>,
      <<"payment", "method", "wise", "summary">>,
      <<"note:", "unless", "the", "constituent">> }

\* rowAsText.includes(marker)
Includes(text, marker) ==
    \E k \in 0 .. (Len(text) - Len(marker)) :
        \A j \in 1 .. Len(marker) : text[k + j] = marker[j]

\* stopMarkers.some(marker => rowAsText.includes(marker))
HasStopMarker(cols, row) ==
    \E marker \in stopMarkers : Includes(JoinLower(cols, row, 1), marker)

\* !row['Transaction Date'] || !row['Beneficiary Name']
Skipped(cols, row) ==
    \/ Falsy(Cell(cols, row, "Transaction Date"))
    \/ Falsy(Cell(cols, row, "Beneficiary Name"))

\* value || ''
OrEmpty(v) == IF Falsy(v) THEN "" ELSE v

\* parseFloat(text.replace(/[^0-9.-]+/g, ''))
ParseFloatStripped(text) ==
    CASE text = ""         -> "NaN"
      [] text = "1,250.50" -> "1250.5"
      [] OTHER             -> "NaN"

\* typeof row['Amount'] === 'string' ? parseFloat(..) : row['Amount'] || null
AmountOf(v) ==
    IF v # Undefined THEN ParseFloatStripped(v)
    ELSE IF Falsy(v) THEN Null ELSE v

\* The object pushed for a row (fetchedAt left out).
MapRow(cols, row) ==
    [ Transaction_Date |-> OrEmpty(Cell(cols, row, "Transaction Date")),
      Beneficiary_Name |-> OrEmpty(Cell(cols, row, "Beneficiary Name")),
      Amount           |-> AmountOf(Cell(cols, row, "Amount")),
      Status           |-> OrEmpty(Cell(cols, row, "Status")) ]

ParseInit ==
    /\ sheetCols \in SheetColumns
    /\ allRows \in SeqsUpTo(SampleRows, MaxRows)
    /\ rowIdx = 0
    /\ results = <<>>
    /\ origin = <<>>
    /\ parsePc = "read"
    /\ parsed = <<>>
    /\ OtpIdle
    /\ FlowIdle
    /\ PairIdle
    /\ SeqIdle
    /\ IngestIdle
    /\ UploadIdle
    /\ CycleIdle

\* xlsx.readFile and sheet_to_json succeed; const results = [].
ParseRead ==
    /\ parsePc = "read"
    /\ parsePc' = "loop"
    /\ rowIdx' = 1
    /\ UNCHANGED <<sheetCols, allRows, results, origin, parsed>>
    /\ UNCHANGED besidesParse

\* xlsx.readFile throws: catch (error) { console.error(..); return [] }
ParseReadFail ==
    /\ parsePc = "read"
    /\ parsePc' = "failed"
    /\ parsed' = <<>>
    /\ UNCHANGED <<sheetCols, allRows, rowIdx, results, origin>>
    /\ UNCHANGED besidesParse

\* A stop marker that is stepped over like an empty row.
ParseStopContinues ==
    /\ parsePc = "loop"
    /\ rowIdx <= Len(allRows)
    /\ HasStopMarker(sheetCols, allRows[rowIdx])
    /\ rowIdx' = rowIdx + 1
    /\ UNCHANGED <<sheetCols, allRows, results, origin, parsePc, parsed>>
    /\ UNCHANGED besidesParse

\* if (stopMarkers.some(..)) { console.log(..); break; } ... return results
ParseStop ==
    /\ parsePc = "loop"
    /\ rowIdx <= Len(allRows)
    /\ HasStopMarker(sheetCols, allRows[rowIdx])
    /\ parsePc' = "done"
    /\ parsed' = results
    /\ UNCHANGED <<sheetCols, allRows, rowIdx, results, origin>>
    /\ UNCHANGED besidesParse

\* if (!row['Transaction Date'] || !row['Beneficiary Name']) continue;
ParseSkip ==
    /\ parsePc = "loop"
    /\ rowIdx <= Len(allRows)
    /\ ~HasStopMarker(sheetCols, allRows[rowIdx])
    /\ Skipped(sheetCols, allRows[rowIdx])
    /\ rowIdx' = rowIdx + 1
    /\ UNCHANGED <<sheetCols, allRows, results, origin, parsePc, parsed>>
    /\ UNCHANGED besidesParse

\* results.push({...})
ParsePush ==
    /\ parsePc = "loop"
    /\ rowIdx <= Len(allRows)
    /\ ~HasStopMarker(sheetCols, allRows[rowIdx])
    /\ ~Skipped(sheetCols, allRows[rowIdx])
    /\ results' = Append(results, MapRow(sheetCols, allRows[rowIdx]))
    /\ origin' = Append(origin, rowIdx)
    /\ rowIdx' = rowIdx + 1
    /\ UNCHANGED <<sheetCols, allRows, parsePc, parsed>>
    /\ UNCHANGED besidesParse

\* The rows are used up: return results.
ParseReturn ==
    /\ parsePc = "loop"
    /\ rowIdx > Len(allRows)
    /\ parsePc' = "done"
    /\ parsed' = results
    /\ UNCHANGED <<sheetCols, allRows, rowIdx, results, origin>>
    /\ UNCHANGED besidesParse

ParseNext ==
    \/ ParseRead
    \/ ParseReadFail
    \/ ParseStop
    \/ ParseSkip
    \/ ParsePush
    \/ ParseReturn

SpecParse == ParseInit /\ [][ParseNext]_vars

\* The rows in which a stop marker is found.
MarkerRows == {i \in 1 .. Len(allRows) : HasStopMarker(sheetCols, allRows[i])}

\* The rows before the first row with a stop marker.
RowsBeforeMarker ==
    {i \in 1 .. Len(allRows) : \A m \in MarkerRows : i < m}

\* C15: parseAxisBankReport stops consuming rows at the first row whose
\* lower-cased joined text contains a stop marker: no element of its output
\* is made from that row or a later one, the loop never goes beyond that
\* row, and the elements made from earlier rows are in input order.
C15_StopsAtFirstMarker ==
    /\ Len(origin) = Len(results)
    /\ \A j \in 1 .. Len(origin) :
          /\ origin[j] \in RowsBeforeMarker
          /\ results[j] = MapRow(sheetCols, allRows[origin[j]])
          /\ \A k \in 1 .. Len(origin) : j < k => origin[j] < origin[k]
    /\ \A m \in MarkerRows : rowIdx <= m
    /\ parsePc = "done" => parsed = results

\* C15 witness: a sheet with a data row, then a marker row split over two
\* cells, then another data row: the call returned one record.
C15_Witness ==
    /\ parsePc = "done"
    /\ Len(allRows) = 3 /\ MarkerRows = {2}
    /\ ~Skipped(sheetCols, allRows[3])
    /\ allRows[2]["Beneficiary Name"] = "Summary"
    /\ Len(parsed) = 1

\* C16: a row before any marker that lacks a value for a column still
\* gives a record, the missing field being null or empty: when the call
\* has returned there is one record for every row before the first marker
\* that has any value at all, and no field of a record holds anything but
\* the cell's text, '' or null.
C16_MissingColumnsTolerated ==
    parsePc = "done" =>
        /\ \A i \in RowsBeforeMarker :
              (\E c \in sheetCols : allRows[i][c] # "")
                  => \E j \in 1 .. Len(origin) : origin[j] = i
        /\ \A j \in 1 .. Len(parsed) :
              /\ Falsy(Cell(sheetCols, allRows[origin[j]], "Amount"))
                    => parsed[j].Amount \in {Null, ""}
              /\ Falsy(Cell(sheetCols, allRows[origin[j]], "Status"))
                    => parsed[j].Status \in {Null, ""}

\* C16 witness: a row without a beneficiary name and a row without an
\* amount were read, nothing stopped the loop.
C16_Witness ==
    /\ parsePc = "done" /\ MarkerRows = {}
    /\ \E i \in 1 .. Len(allRows) :
          allRows[i]["Beneficiary Name"] = "" /\ allRows[i]["Transaction Date"] # ""
    /\ \E j \in 1 .. Len(parsed) : allRows[origin[j]]["Amount"] = ""

(***************************************************************************)
(* tests/kotak-new.spec.js over several runs: the payouts collection, the  *)
(* .csv files in tests/KotakFiles and what each run of the full-cycle test *)
(* does to them.  A step stands for the statements of the lines named      *)
(* beside it and may throw where one of them may; the catch blocks at 209  *)
(* and 410 send an alert and throw again, so a throw goes on to the        *)
(* finally block.  The portal steps count as done when their statements    *)
(* have run without throwing.                                              *)
(***************************************************************************)
\* Runs of the test.
MaxRuns == 3

\* .limit(100)
BatchLimit == 100

\* find({status: "processing"}).sort({createdAt: 1}).limit(100): payouts
\* are numbered in the order of their createdAt.
SelectProcessing(st) ==
    LET P == {p \in Payouts : st[p] = "processing"}
    IN  {p \in P : Cardinality({q \in P : q < p}) < BatchLimit}

\* getLatestFile(sampleFilesDir, '.csv'): the most recently written file.
LatestFile(dir) == CHOOSE f \in dir : \A g \in dir : g.gen <= f.gen

cLocals == <<csvFilePath, shouldUpdateDatabase, payoutIds, csvGenerated>>

cTrace == <<remark, cconns, calerts, dbOps>>

CycleInit ==
    /\ CycleIdle
    /\ OtpIdle
    /\ FlowIdle
    /\ PairIdle
    /\ SeqIdle
    /\ IngestIdle
    /\ UploadIdle
    /\ ParseIdle

\* The Paylogic backend puts a payout into the collection as 'processing'.
PayoutArrives ==
    /\ \E p \in Payouts :
         /\ payStatus[p] = "none"
         /\ \A q \in Payouts : q < p => payStatus[q] # "none"
         /\ payStatus' = [payStatus EXCEPT ![p] = "processing"]
    /\ UNCHANGED <<csvDir, run, cpc, cLocals, cexc, creturning, result, prog,
                   cfailed, paid>>
    /\ UNCHANGED cTrace
    /\ UNCHANGED besidesCycle

\* The test is started: lines 128-135.
CBegin ==
    /\ cpc \in {"idle", "ended"}
    /\ run < MaxRuns
    /\ run' = run + 1
    /\ cpc' = "cleanup"
    /\ csvFilePath' = NoFile
    /\ shouldUpdateDatabase' = FALSE
    /\ payoutIds' = {}
    /\ csvGenerated' = FALSE
    /\ cexc' = "none"
    /\ creturning' = FALSE
    /\ result' = "running"
    /\ prog' = {}
    /\ cfailed' = {}
    /\ remark' = NoRemark
    /\ cconns' = {}
    /\ calerts' = <<>>
    /\ dbOps' = {}
    /\ UNCHANGED <<payStatus, csvDir, paid>>
    /\ UNCHANGED besidesCycle

\* A handler that also removes the file when Part 2 throws.
CHandlerCleansUp(l) ==
    CASE l = "cleanup"  -> "end"
      [] l = "connect1" -> "fin1"
      [] l = "find"     -> "fin1"
      [] l = "generate" -> "fin1"
      [] l = "write"    -> "fin1"
      [] l = "fin1"     -> "end"
      [] l = "launch"   -> "end"
      [] l = "upload"   -> "delete"
      [] l = "approve"  -> "delete"
      [] l = "finalOtp" -> "delete"
      [] l = "fin3"     -> "fin2"
      [] l = "fin2"     -> "end"

\* Where control goes when the statements of a step throw: the finally
\* block of the enclosing try (after its catch block), or out of the test.
CHandler(l) ==
    CASE l = "cleanup"  -> "end"     \* 141, outside any try
      [] l = "connect1" -> "fin1"    \* 156-157, catch 209-212
      [] l = "find"     -> "fin1"    \* 163-166
      [] l = "generate" -> "fin1"    \* 179-202
      [] l = "write"    -> "fin1"    \* 205
      [] l = "fin1"     -> "end"     \* 214
      [] l = "launch"   -> "end"     \* 231, outside any try
      [] l = "upload"   -> "fin2"    \* 237-309, catch 410-413
      [] l = "approve"  -> "fin2"    \* 312-352
      [] l = "finalOtp" -> "fin2"    \* 355-377
      [] l = "fin3"     -> "fin2"    \* 401, inside the outer try
      [] l = "fin2"     -> "end"     \* 415

\* The alert of the catch block that handles a throw of the step: 209-212
\* for Part 1, 410-413 for what is inside the outer try.
CatchAlert(l) ==
    CASE l \in {"connect1", "find", "generate", "write"} ->
             <<"DB/CSV Generation Failed">>
      [] l \in {"upload", "approve", "finalOtp", "fin3"} -> <<"Test Failed">>
      [] OTHER -> <<>>

\* A step throws.
CThrows ==
    /\ cpc \in {"cleanup", "connect1", "find", "generate", "write", "fin1",
                "launch", "upload", "approve", "finalOtp", "fin3", "fin2"}
    /\ cexc' = cpc
    /\ creturning' = FALSE
    /\ cfailed' = cfailed \cup {cpc}
    /\ cpc' = CHandler(cpc)
    /\ calerts' = calerts \o CatchAlert(cpc)
    /\ dbOps' = IF cpc = "find" THEN dbOps \cup {"find"} ELSE dbOps
    /\ UNCHANGED <<payStatus, csvDir, run, cLocals, result, prog, paid,
                   remark, cconns>>
    /\ UNCHANGED besidesCycle

\* await cleanupOldFiles(): removes .xls and .xlsx files only.
CCleanup ==
    /\ cpc = "cleanup"
    /\ cpc' = "hasCsv"
    /\ UNCHANGED <<payStatus, csvDir, run, cLocals, cexc, creturning, result,
                   prog, cfailed, paid>>
    /\ UNCHANGED cTrace
    /\ UNCHANGED besidesCycle

\* A test that takes the existing file and still goes on to the database
\* phase and flags the update.
CHasCsvStillQueries ==
    /\ cpc = "hasCsv"
    /\ IF csvDir # {}
       THEN /\ csvFilePath' = LatestFile(csvDir)
            /\ shouldUpdateDatabase' = TRUE
            /\ prog' = prog \cup {"reused"}
            /\ cpc' = "connect1"
       ELSE /\ cpc' = "connect1"
            /\ UNCHANGED <<csvFilePath, shouldUpdateDatabase, prog>>
    /\ UNCHANGED <<payStatus, csvDir, run, payoutIds, csvGenerated, cexc,
                   creturning, result, cfailed, paid>>
    /\ UNCHANGED cTrace
    /\ UNCHANGED besidesCycle

\* if (hasExistingCsvFiles(..)) { csvFileName = getLatestFile(..);
\*   shouldUpdateDatabase = false } else { const client = new MongoClient }
CHasCsv ==
    /\ cpc = "hasCsv"
    /\ IF csvDir # {}
       THEN /\ csvFilePath' = LatestFile(csvDir)
            /\ shouldUpdateDatabase' = FALSE
            /\ prog' = prog \cup {"reused"}
            /\ cpc' = "launch"
       ELSE /\ cpc' = "connect1"
            /\ UNCHANGED <<csvFilePath, shouldUpdateDatabase, prog>>
    /\ UNCHANGED <<payStatus, csvDir, run, payoutIds, csvGenerated, cexc,
                   creturning, result, cfailed, paid>>
    /\ UNCHANGED cTrace
    /\ UNCHANGED besidesCycle

\* await client.connect()
CConnect1 ==
    /\ cpc = "connect1"
    /\ cpc' = "find"
    /\ cconns' = cconns \cup {"part1"}
    /\ UNCHANGED <<payStatus, csvDir, run, cLocals, cexc, creturning, result,
                   prog, cfailed, paid, remark, calerts, dbOps>>
    /\ UNCHANGED besidesCycle

\* const payouts = await find(..).toArray();
\* if (!payouts.length) return;
\* payoutIds = payouts.map(p => p._id); shouldUpdateDatabase = true;
CFind ==
    /\ cpc = "find"
    /\ LET payouts == SelectProcessing(payStatus)
       IN  IF payouts = {}
           THEN /\ creturning' = TRUE
                /\ prog' = prog \cup {"noPayouts"}
                /\ cpc' = "fin1"
                /\ UNCHANGED <<payoutIds, shouldUpdateDatabase>>
           ELSE /\ payoutIds' = payouts
                /\ shouldUpdateDatabase' = TRUE
                /\ cpc' = "generate"
                /\ UNCHANGED <<creturning, prog>>
    /\ dbOps' = dbOps \cup {"find"}
    /\ UNCHANGED <<payStatus, csvDir, run, csvFilePath, csvGenerated, cexc,
                   result, cfailed, paid, remark, cconns, calerts>>
    /\ UNCHANGED besidesCycle

\* formattedData = payouts.map(..); csv = Papa.unparse(..); the file name
CGenerate ==
    /\ cpc = "generate"
    /\ cpc' = "write"
    /\ UNCHANGED <<payStatus, csvDir, run, cLocals, cexc, creturning, result,
                   prog, cfailed, paid>>
    /\ UNCHANGED cTrace
    /\ UNCHANGED besidesCycle

\* fs.writeFileSync(csvFilePath, csv); csvGenerated = true;
CWrite ==
    /\ cpc = "write"
    /\ LET f == [gen |-> run, ids |-> payoutIds]
       IN  /\ csvDir' = csvDir \cup {f}
           /\ csvFilePath' = f
    /\ csvGenerated' = TRUE
    /\ cpc' = "fin1"
    /\ UNCHANGED <<payStatus, run, shouldUpdateDatabase, payoutIds, cexc,
                   creturning, result, prog, cfailed, paid>>
    /\ UNCHANGED cTrace
    /\ UNCHANGED besidesCycle

\* A finally block after which only a throw leaves the test.
CFin1IgnoresReturn ==
    /\ cpc = "fin1"
    /\ IF cexc # "none"
       THEN cpc' = "end"
       ELSE cpc' = "launch"
    /\ cconns' = cconns \ {"part1"}
    /\ UNCHANGED <<payStatus, csvDir, run, cLocals, cexc, creturning, result,
                   prog, cfailed, paid, remark, calerts, dbOps>>
    /\ UNCHANGED besidesCycle

\* finally { await client.close() }; then the pending throw or return
\* goes on, or: if (!csvGenerated) return;
CFin1 ==
    /\ cpc = "fin1"
    /\ IF cexc # "none" \/ creturning \/ ~csvGenerated
       THEN cpc' = "end"
       ELSE cpc' = "launch"
    /\ cconns' = cconns \ {"part1"}
    /\ UNCHANGED <<payStatus, csvDir, run, cLocals, cexc, creturning, result,
                   prog, cfailed, paid, remark, calerts, dbOps>>
    /\ UNCHANGED besidesCycle

\* const browser = await chromium.launch(..)
CLaunch ==
    /\ cpc = "launch"
    /\ cpc' = "upload"
    /\ UNCHANGED <<payStatus, csvDir, run, cLocals, cexc, creturning, result,
                   prog, cfailed, paid>>
    /\ UNCHANGED cTrace
    /\ UNCHANGED besidesCycle

\* Texts the remarks cell of the uploaded file may show, word by word.
Remarks ==
    { <<"File", "Uploaded", "Successfully">>,
      <<"file", "uploaded", "successfully">>,
      <<"File", "Uploaded", "Successfully", "with", "Rejected", "Records">>,
      <<"Rejected", "Records">>,
      <<"Error", "in", "File">>,
      <<"Under", "Process">> }

\* The word in lower case: the i flag of the regular expression.
LowerWord(w) ==
    CASE w = "File"         -> "file"
      [] w = "Uploaded"     -> "uploaded"
      [] w = "Successfully" -> "successfully"
      [] w = "Rejected"     -> "rejected"
      [] w = "Records"      -> "records"
      [] w = "Error"        -> "error"
      [] w = "Under"        -> "under"
      [] w = "Process"      -> "process"
      [] OTHER              -> w

\* /File Uploaded Successfully|Rejected Records|Error/i matches the text.
MatchesStatusRegex(r) ==
    LET lower == [k \in 1 .. Len(r) |-> LowerWord(r[k])]
    IN  \/ Includes(lower, <<"file", "uploaded", "successfully">>)
        \/ Includes(lower, <<"rejected", "records">>)
        \/ Includes(lower, <<"error">>)

\* A test of the remark that leaves 'Rejected' out.
UploadAcceptedIgnoresRejected(r) ==
    Includes(r, <<"File", "Uploaded", "Successfully">>)

\* finalRemarks.includes('File Uploaded Successfully') &&
\* !finalRemarks.includes('Rejected')
UploadAccepted(r) ==
    /\ Includes(r, <<"File", "Uploaded", "Successfully">>)
    /\ ~Includes(r, <<"Rejected">>)

\* Login of account A, OTP A, fileChooser.setFiles(csvFilePath), Upload,
\* and the remark is 'File Uploaded Successfully' without 'Rejected'.
CUpload ==
    /\ cpc = "upload"
    /\ \E r \in Remarks :
         /\ MatchesStatusRegex(r)
         /\ UploadAccepted(r)
         /\ remark' = r
    /\ prog' = prog \cup {"uploaded"}
    /\ cpc' = "approve"
    /\ UNCHANGED <<payStatus, csvDir, run, cLocals, cexc, creturning, result,
                   cfailed, paid, cconns, calerts, dbOps>>
    /\ UNCHANGED besidesCycle

\* The same up to the remark, which is another of the texts the expect
\* call waits for: else { sendTelegramAlert(alertMsg); throw new Error }
\* and the catch block at 410.
CUploadIssue ==
    /\ cpc = "upload"
    /\ \E r \in Remarks :
         /\ MatchesStatusRegex(r)
         /\ ~UploadAccepted(r)
         /\ remark' = r
    /\ calerts' = calerts \o <<"Upload Issue Detected">> \o CatchAlert("upload")
    /\ cexc' = "upload"
    /\ cfailed' = cfailed \cup {"upload"}
    /\ cpc' = CHandler("upload")
    /\ UNCHANGED <<payStatus, csvDir, run, cLocals, creturning, result, prog,
                   paid, cconns, dbOps>>
    /\ UNCHANGED besidesCycle

\* The same up to the remark, which stays a text that the regular
\* expression does not match: expect(..).toHaveText throws after 90000 ms.
CRemarkTimeout ==
    /\ cpc = "upload"
    /\ \E r \in Remarks :
         /\ ~MatchesStatusRegex(r)
         /\ remark' = r
    /\ calerts' = calerts \o CatchAlert("upload")
    /\ cexc' = "upload"
    /\ cfailed' = cfailed \cup {"upload"}
    /\ cpc' = CHandler("upload")
    /\ UNCHANGED <<payStatus, csvDir, run, cLocals, creturning, result, prog,
                   paid, cconns, dbOps>>
    /\ UNCHANGED besidesCycle
    /\ UNCHANGED besidesCycle

\* Login of account B, OTP B, the file is selected and Approve is clicked.
CApprove ==
    /\ cpc = "approve"
    /\ prog' = prog \cup {"approveClicked"}
    /\ cpc' = "finalOtp"
    /\ UNCHANGED <<payStatus, csvDir, run, cLocals, cexc, creturning, result,
                   cfailed, paid>>
    /\ UNCHANGED cTrace
    /\ UNCHANGED besidesCycle

\* The final OTP is retrieved, filled in and submitted.
CFinalOtp ==
    /\ cpc = "finalOtp"
    /\ prog' = prog \cup {"approved"}
    /\ cpc' = "should"
    /\ UNCHANGED <<payStatus, csvDir, run, cLocals, cexc, creturning, result,
                   cfailed, paid>>
    /\ UNCHANGED cTrace
    /\ UNCHANGED besidesCycle

\* if (shouldUpdateDatabase && payoutIds.length > 0) { new MongoClient ..
CShould ==
    /\ cpc = "should"
    /\ cpc' = IF shouldUpdateDatabase /\ payoutIds # {} THEN "connect3"
                                                       ELSE "delete"
    /\ UNCHANGED <<payStatus, csvDir, run, cLocals, cexc, creturning, result,
                   prog, cfailed, paid>>
    /\ UNCHANGED cTrace
    /\ UNCHANGED besidesCycle

\* await client.connect() of Part 3
CConnect3 ==
    /\ cpc = "connect3"
    /\ cpc' = "update"
    /\ cconns' = cconns \cup {"part3"}
    /\ UNCHANGED <<payStatus, csvDir, run, cLocals, cexc, creturning, result,
                   prog, cfailed, paid, remark, calerts, dbOps>>
    /\ UNCHANGED besidesCycle

\* connect throws: catch (error) { console.error; sendTelegramAlert } with
\* no throw.
CConnect3Fail ==
    /\ cpc = "connect3"
    /\ cfailed' = cfailed \cup {"connect3"}
    /\ calerts' = Append(calerts, "DB Update Failed")
    /\ cpc' = "fin3"
    /\ UNCHANGED <<payStatus, csvDir, run, cLocals, cexc, creturning, result,
                   prog, paid, remark, cconns, dbOps>>
    /\ UNCHANGED besidesCycle

\* An update of every payout that is 'processing' now.
CUpdateAllProcessing ==
    /\ cpc = "update"
    /\ payStatus' = [p \in Payouts |->
                        IF payStatus[p] = "processing" THEN "queued"
                                                       ELSE payStatus[p]]
    /\ prog' = prog \cup {"updated"}
    /\ dbOps' = dbOps \cup {"updateMany"}
    /\ cpc' = "fin3"
    /\ UNCHANGED <<csvDir, run, cLocals, cexc, creturning, result, cfailed,
                   paid, remark, cconns, calerts>>
    /\ UNCHANGED besidesCycle

\* updateMany({_id: {$in: payoutIds}}, {$set: {status: "queued"}})
CUpdate ==
    /\ cpc = "update"
    /\ payStatus' = [p \in Payouts |->
                        IF p \in payoutIds THEN "queued" ELSE payStatus[p]]
    /\ prog' = prog \cup {"updated"}
    /\ dbOps' = dbOps \cup {"updateMany"}
    /\ cpc' = "fin3"
    /\ UNCHANGED <<csvDir, run, cLocals, cexc, creturning, result, cfailed,
                   paid, remark, cconns, calerts>>
    /\ UNCHANGED besidesCycle

\* A catch block in Part 3 that only logs.
CUpdateFailSilent ==
    /\ cpc = "update"
    /\ \E done \in SUBSET payoutIds :
         /\ done # payoutIds
         /\ payStatus' = [p \in Payouts |->
                             IF p \in done THEN "queued" ELSE payStatus[p]]
    /\ cfailed' = cfailed \cup {"update"}
    /\ dbOps' = dbOps \cup {"updateMany"}
    /\ calerts' = calerts
    /\ cpc' = "fin3"
    /\ UNCHANGED <<csvDir, run, cLocals, cexc, creturning, result, prog, paid,
                   remark, cconns>>
    /\ UNCHANGED besidesCycle

\* updateMany throws after it has written some of the documents, or none:
\* the catch block alerts and does not throw.
CUpdateFail ==
    /\ cpc = "update"
    /\ \E done \in SUBSET payoutIds :
         /\ done # payoutIds
         /\ payStatus' = [p \in Payouts |->
                             IF p \in done THEN "queued" ELSE payStatus[p]]
    /\ cfailed' = cfailed \cup {"update"}
    /\ dbOps' = dbOps \cup {"updateMany"}
    /\ calerts' = Append(calerts, "DB Update Failed")
    /\ cpc' = "fin3"
    /\ UNCHANGED <<csvDir, run, cLocals, cexc, creturning, result, prog, paid,
                   remark, cconns>>
    /\ UNCHANGED besidesCycle

\* finally { await client.close() } of Part 3
CFin3 ==
    /\ cpc = "fin3"
    /\ cpc' = "delete"
    /\ cconns' = cconns \ {"part3"}
    /\ UNCHANGED <<payStatus, csvDir, run, cLocals, cexc, creturning, result,
                   prog, cfailed, paid, remark, calerts, dbOps>>
    /\ UNCHANGED besidesCycle

\* if (csvFilePath) deleteFile(csvFilePath): existsSync, unlinkSync
CDelete ==
    /\ cpc = "delete"
    /\ csvDir' = csvDir \ {csvFilePath}
    /\ prog' = prog \cup {"deleted"}
    /\ cpc' = "fin2"
    /\ UNCHANGED <<payStatus, run, cLocals, cexc, creturning, result, cfailed,
                   paid>>
    /\ UNCHANGED cTrace
    /\ UNCHANGED besidesCycle

\* unlinkSync throws: deleteFile catches and logs it.
CDeleteFail ==
    /\ cpc = "delete"
    /\ cfailed' = cfailed \cup {"delete"}
    /\ cpc' = "fin2"
    /\ UNCHANGED <<payStatus, csvDir, run, cLocals, cexc, creturning, result,
                   prog, paid>>
    /\ UNCHANGED cTrace
    /\ UNCHANGED besidesCycle

\* finally { await browser.close() }
CFin2 ==
    /\ cpc = "fin2"
    /\ cpc' = "end"
    /\ UNCHANGED <<payStatus, csvDir, run, cLocals, cexc, creturning, result,
                   prog, cfailed, paid>>
    /\ UNCHANGED cTrace
    /\ UNCHANGED besidesCycle

\* The test body is left: the run passed unless an exception left it, and
\* then the afterEach hook at 105-124 sends its alert.
CEnd ==
    /\ cpc = "end"
    /\ cpc' = "ended"
    /\ result' = IF cexc = "none" THEN "passed" ELSE "failed"
    /\ paid' = [p \in Payouts |->
                   IF cexc = "none" /\ "approved" \in prog
                      /\ p \in csvFilePath.ids
                   THEN paid[p] + 1 ELSE paid[p]]
    /\ calerts' = IF cexc = "none" THEN calerts
                                   ELSE Append(calerts, "afterEach")
    /\ UNCHANGED <<payStatus, csvDir, run, cLocals, cexc, creturning, prog,
                   cfailed, remark, cconns, dbOps>>
    /\ UNCHANGED besidesCycle

CycleNext ==
    \/ PayoutArrives
    \/ CBegin
    \/ CThrows
    \/ CCleanup
    \/ CHasCsv
    \/ CConnect1
    \/ CFind
    \/ CGenerate
    \/ CWrite
    \/ CFin1
    \/ CLaunch
    \/ CUpload
    \/ CUploadIssue
    \/ CRemarkTimeout
    \/ CApprove
    \/ CFinalOtp
    \/ CShould
    \/ CConnect3
    \/ CConnect3Fail
    \/ CUpdate
    \/ CUpdateFail
    \/ CFin3
    \/ CDelete
    \/ CDeleteFail
    \/ CFin2
    \/ CEnd

SpecCycle == CycleInit /\ [][CycleNext]_vars

(***************************************************************************)
(* Properties of the full cycle.                                           *)
(***************************************************************************)
\* What Part 2 has done when it has completed.
Part2Done == {"uploaded", "approveClicked", "approved"}

Part2Steps == {"upload", "approve", "finalOtp"}

RunOver == cpc = "ended"

C18_QueuedOnlyAfterApproval ==
    [][ payStatus' # payStatus
          => \/ \E p \in Payouts :
                   /\ payStatus[p] = "none"
                   /\ payStatus' = [payStatus EXCEPT ![p] = "processing"]
                   /\ cpc' = cpc
             \/ /\ cpc = "update"
                /\ Part2Done \subseteq prog
                /\ cfailed \cap (Part2Steps \cup {"launch"}) = {}
                /\ cexc = "none"
                /\ csvFilePath.gen = run
                /\ payoutIds = csvFilePath.ids
                /\ \A p \in Payouts :
                      payStatus'[p] # payStatus[p]
                          => p \in payoutIds /\ payStatus'[p] = "queued"
                /\ "updated" \in prog'
                      => \A p \in payoutIds : payStatus'[p] = "queued"
      ]_vars

\* C18 witness: the update of Part 3 has run while a payout that arrived
\* after the CSV was generated is still 'processing'.
C18_Witness ==
    /\ "updated" \in prog /\ cpc = "fin3"
    /\ \A p \in payoutIds : payStatus[p] = "queued"
    /\ \E p \in Payouts \ payoutIds : payStatus[p] = "processing"

\* C19: over any sequence of runs no payout is in the uploaded file of
\* more than one run that passed with the file approved.
C19_NoPayoutApprovedTwice ==
    \A p \in Payouts : paid[p] <= 1

\* C19 witness: a payout was approved in a run that passed, its status is
\* 'queued', the file is gone, and a later run has ended without touching
\* it.
C19_Witness ==
    /\ RunOver /\ run >= 2 /\ csvDir = {}
    /\ \E p \in Payouts : paid[p] = 1 /\ payStatus[p] = "queued"
    /\ \A p \in Payouts : paid[p] <= 1

\* C20: when a run has passed with its file approved, every payout in the
\* uploaded CSV has the status 'queued'.
C20_ApprovedPayoutsAreQueued ==
    (RunOver /\ result = "passed" /\ "approved" \in prog)
        => \A p \in csvFilePath.ids : payStatus[p] = "queued"

\* C20 witness: a run that generated its CSV has passed with the file
\* approved and every payout of the file is 'queued'.
C20_Witness ==
    /\ RunOver /\ result = "passed" /\ "approved" \in prog
    /\ csvFilePath.gen = run /\ csvFilePath.ids # {}
    /\ \A p \in csvFilePath.ids : payStatus[p] = "queued"

(***************************************************************************)
(* The upload remark, the database phases and the alerts of the full       *)
(* cycle.                                                                  *)
(***************************************************************************)
\* The remark has been read.
RemarkRead == remark # NoRemark

\* The remark contains 'File Uploaded Successfully' and no 'Rejected'.
FullyUploaded ==
    /\ \E k \in 1 .. Len(remark) - 2 :
          /\ remark[k] = "File"
          /\ remark[k + 1] = "Uploaded"
          /\ remark[k + 2] = "Successfully"
    /\ \A k \in 1 .. Len(remark) : remark[k] # "Rejected"

\* The run is at, or has passed, the login of account B.
AccountBStarted ==
    \/ cpc \in {"approve", "finalOtp", "should", "connect3", "update", "fin3",
                "delete"}
    \/ prog \cap {"uploaded", "approveClicked", "approved", "updated"} # {}

AlertsSent == {calerts[k] : k \in 1 .. Len(calerts)}

\* C21 as stated: the approval by account B is started only if the remark
\* contains 'File Uploaded Successfully' and no 'Rejected'; for any other
\* remark the upload-issue alert is sent, the run fails, and there is no
\* login of account B, no approval and no status update.
C21_AnyOtherRemarkAlertsUploadIssue ==
    /\ AccountBStarted => (RemarkRead /\ FullyUploaded)
    /\ (RemarkRead /\ ~FullyUploaded)
         => /\ ~AccountBStarted
            /\ "updateMany" \notin dbOps
            /\ "Upload Issue Detected" \in AlertsSent
            /\ RunOver => result = "failed"

\* C21: the approval by account B is started only if the remark contains
\* 'File Uploaded Successfully' and no 'Rejected'; for any other remark
\* the run fails with an alert and there is no login of account B, no
\* approval and no status update.  The alert is the upload-issue alert
\* (followed by the test-failed alert) when the remark is one of the texts
\* the status check waits for, and the test-failed alert alone when it is
\* not.
C21_ApprovalOnlyAfterCleanUpload ==
    /\ AccountBStarted => (RemarkRead /\ FullyUploaded)
    /\ (RemarkRead /\ ~FullyUploaded)
         => /\ ~AccountBStarted
            /\ "updateMany" \notin dbOps
            /\ "Test Failed" \in AlertsSent
            /\ ("Upload Issue Detected" \in AlertsSent)
                  <=> MatchesStatusRegex(remark)
            /\ RunOver => result = "failed"
    /\ "Upload Issue Detected" \in AlertsSent => (RemarkRead /\ ~FullyUploaded)

\* C21 witness: a run whose file was uploaded with rejected records has
\* ended as failed after the upload-issue alert, with account B untouched.
C21_Witness ==
    /\ RunOver /\ result = "failed"
    /\ remark = <<"File", "Uploaded", "Successfully", "with", "Rejected",
                  "Records">>
    /\ calerts = <<"Upload Issue Detected", "Test Failed", "afterEach">>
    /\ ~AccountBStarted

\* The run found a CSV file and reuses it.
RetryRun == "reused" \in prog

\* C22: a run that reuses an existing CSV file never reads or modifies the
\* payouts collection: it opens no store connection, issues no payout
\* query and no status update, and no status changes by a step of the run,
\* whatever the outcome of the upload and the approval.
C22_RetryLeavesPayoutsAlone ==
    /\ [](RetryRun => (dbOps = {} /\ cconns = {}))
    /\ [][(RetryRun /\ payStatus' # payStatus) => cpc' = cpc]_vars

\* C22 witness: a retry run has passed with its file approved and deleted,
\* without a call on the collection, while a payout is still 'processing'.
C22_Witness ==
    /\ RunOver /\ RetryRun /\ result = "passed"
    /\ {"approved", "deleted"} \subseteq prog
    /\ dbOps = {}
    /\ \E p \in csvFilePath.ids : payStatus[p] = "processing"

\* The number of alerts of one kind the run has sent.
AlertCount(kind) == Cardinality({k \in 1 .. Len(calerts) : calerts[k] = kind})

\* The statements of the Part 3 update block that throw into its catch.
UpdateSteps == {"connect3", "update"}

\* C23: when the payout status update of Part 3 fails, the failure is not
\* propagated: exactly one 'DB Update Failed' alert is sent and no
\* exception is in flight when the finally block closes the client; and
\* when nothing else throws, the client is closed, the CSV file is deleted
\* and the run ends as passed.
C23_UpdateFailureNotPropagated ==
    /\ (cfailed \cap UpdateSteps # {})
         => /\ AlertCount("DB Update Failed") = 1
            /\ cpc = "fin3" => cexc = "none"
    /\ (RunOver /\ cfailed # {} /\ cfailed \subseteq UpdateSteps)
         => /\ result = "passed"
            /\ calerts = <<"DB Update Failed">>
            /\ cconns = {}
            /\ "deleted" \in prog
            /\ csvFilePath \notin csvDir

\* C23 witness: updateMany threw, and the run has ended as passed with one
\* alert, the client closed and the CSV file deleted.
C23_Witness ==
    /\ RunOver /\ cfailed = {"update"} /\ result = "passed"
    /\ calerts = <<"DB Update Failed">>
    /\ cconns = {} /\ csvDir = {} /\ "deleted" \in prog

\* The find of Part 1 gave no payout.
NothingToProcess == "noPayouts" \in prog

\* C24: when no CSV file exists and the collection holds no 'processing'
\* payout, the run goes from the query to the finally block and out: it
\* writes no CSV file, launches no browser and uploads nothing, changes no
\* payout, and (when no statement throws) sends no alert, closes its store
\* connection and ends as passed.
C24_NothingToProcessEndsQuietly ==
    /\ [](NothingToProcess
            => /\ cpc \in {"fin1", "end", "ended"}
               /\ csvDir = {} /\ csvFilePath = NoFile /\ ~csvGenerated
               /\ prog = {"noPayouts"}
               /\ dbOps = {"find"}
               /\ cfailed = {} => calerts = <<>>
               /\ (RunOver /\ cfailed = {})
                     => (result = "passed" /\ cconns = {}))
    /\ [][(NothingToProcess /\ payStatus' # payStatus) => cpc' = cpc]_vars

\* C24 witness: a later run found neither a CSV file nor a 'processing'
\* payout and has ended as passed, without an alert and with its client
\* closed.
C24_Witness ==
    /\ RunOver /\ NothingToProcess /\ result = "passed"
    /\ run >= 2 /\ \E p \in Payouts : payStatus[p] = "queued"
    /\ calerts = <<>> /\ cconns = {} /\ csvDir = {}

(***************************************************************************)
(* The three OTP steps of one run of tests/kotak-new.spec.js, one after    *)
(* the other over one otps collection: OTP A (249-255), OTP B (326-332)    *)
(* and the final approval OTP (356-362).  Each step takes its own          *)
(* Date.now() and polls fetchLatestOtp with it; a step that ends with a    *)
(* code lets the run go on to the next, and the capture agent stamps its   *)
(* records with the clock the flow reads.  A fetchLatestOtp call is one    *)
(* store call followed by the close of its client.                         *)
(***************************************************************************)
\* A record that has been in the store since before the run.
OldRecord == [id |-> 1, otp |-> CodeOf(1), createdAt |-> StartClock - 10]

KActive == ks.pc \in {"wait", "check", "call", "close", "sleep"}

\* The run has made the click that asks the bank for the code of one of
\* its OTP steps.
SeqStart(first) ==
    /\ now = StartClock
    /\ store \in {{}, {OldRecord}}
    /\ site = "none"
    /\ pc = "done"
    /\ clickTime = 0
    /\ waitUntil = 0
    /\ startTime = 0
    /\ otp = Null
    /\ ret = Null
    /\ found = {}
    /\ pollStart = 0
    /\ wakeAt = 0
    /\ conns = 0
    /\ error = "none"
    /\ typed = Null
    /\ hist = Hist0
    /\ kstep = first
    /\ ks = [Step0 EXCEPT !.pc = "wait", !.clickTime = StartClock,
                          !.waitUntil = StartClock
                                          + WaitAfterClick(StepSite[first])]
    /\ given = <<>>
    /\ FlowIdle
    /\ PairIdle
    /\ ParseIdle
    /\ CycleIdle
    /\ IngestIdle
    /\ UploadIdle

\* The run has clicked 'Secure login' for account A.
SeqInit == SeqStart(1)

\* The run has clicked 'Continue' for the final approval OTP.
LoopInit == SeqStart(Len(StepSite))

\* The capture agent appends a record stamped with the current time, a few
\* seconds after the click that asked the bank for a code.
KInsert ==
    /\ KActive
    /\ ks.inserts < MaxInserts
    /\ now - ks.clickTime <= MaxInsertDelay
    /\ LET id == 2 + Cardinality({r \in store : r.id > 1})
       IN  store' = store \cup {[id |-> id, otp |-> CodeOf(id),
                                 createdAt |-> now]}
    /\ ks' = [ks EXCEPT !.inserts = @ + 1]
    /\ UNCHANGED <<now, kstep, given>>
    /\ UNCHANGED besidesSeq

\* Time passes in the waitForTimeout after the click and in the setTimeout
\* of the loop.
KTick ==
    /\ \/ ks.pc = "wait" /\ now < ks.waitUntil
       \/ ks.pc = "sleep" /\ now < ks.wakeAt
    /\ now' = now + 1
    /\ UNCHANGED <<store, seqVars>>
    /\ UNCHANGED besidesSeq

\* Time passes while fetchLatestOtp is awaited.
KCallTick ==
    /\ ks.pc \in {"call", "close"}
    /\ now - ks.callStart < MaxQueryTime
    /\ now' = now + 1
    /\ UNCHANGED <<store, seqVars>>
    /\ UNCHANGED besidesSeq

\* A step that takes over the reference timestamp of the first step.
KStartReusesFirst ==
    /\ ks.pc = "wait"
    /\ now >= ks.waitUntil
    /\ ks' = [ks EXCEPT !.startTime = IF given = <<>> THEN now
                                                      ELSE given[1].T,
                        !.otp = Null, !.pc = "check"]
    /\ UNCHANGED <<now, store, kstep, given>>
    /\ UNCHANGED besidesSeq

\* const startTimeA = Date.now(); let otpA = null;  (B and C alike)
KStart ==
    /\ ks.pc = "wait"
    /\ now >= ks.waitUntil
    /\ ks' = [ks EXCEPT !.startTime = now, !.otp = Null, !.pc = "check"]
    /\ UNCHANGED <<now, store, kstep, given>>
    /\ UNCHANGED besidesSeq

\* The loop test passes: fetchLatestOtp(startTime) is called.
KLoopEnter ==
    /\ ks.pc = "check"
    /\ LoopCondition(ks.otp, now - ks.startTime)
    /\ ks' = [ks EXCEPT !.pc = "call", !.ret = Null, !.callStart = now,
                        !.polls = @ + 1]
    /\ UNCHANGED <<now, store, kstep, given>>
    /\ UNCHANGED besidesSeq

\* The loop test fails; if (!otp) throw new Error(..).
KLoopExit ==
    /\ ks.pc = "check"
    /\ ~LoopCondition(ks.otp, now - ks.startTime)
    /\ ks' = [ks EXCEPT !.pc = IF ks.otp = Null THEN "timeout" ELSE "done"]
    /\ UNCHANGED <<now, store, kstep, given>>
    /\ UNCHANGED besidesSeq

\* connect and findOne resolve; return otp?.otp || null
KFind ==
    /\ ks.pc = "call"
    /\ \E doc \in FindOneResults(store, ks.startTime) :
         ks' = [ks EXCEPT !.pc = "close", !.found = doc, !.ret = OrNull(doc)]
    /\ UNCHANGED <<now, store, kstep, given>>
    /\ UNCHANGED besidesSeq

\* connect or findOne rejects: catch { return null }
KCallFail ==
    /\ ks.pc = "call"
    /\ ks.fails < MaxFails
    /\ ks' = [ks EXCEPT !.pc = "close", !.found = {}, !.ret = Null,
                        !.fails = @ + 1]
    /\ UNCHANGED <<now, store, kstep, given>>
    /\ UNCHANGED besidesSeq

\* A loop that sleeps two seconds between polls.
KCloseOkShortSleep ==
    /\ ks.pc = "close"
    /\ ks' = [ks EXCEPT !.otp = ks.ret,
                        !.pc = IF ks.ret = Null THEN "sleep" ELSE "check",
                        !.wakeAt = IF ks.ret = Null THEN now + 2 ELSE @]
    /\ UNCHANGED <<now, store, kstep, given>>
    /\ UNCHANGED besidesSeq

\* finally { await client.close() } resolves; otp = the value returned;
\* if (!otp) await new Promise(r => setTimeout(r, 3000));
KCloseOk ==
    /\ ks.pc = "close"
    /\ ks' = [ks EXCEPT !.otp = ks.ret,
                        !.pc = IF ks.ret = Null THEN "sleep" ELSE "check",
                        !.wakeAt = IF ks.ret = Null THEN now + PollInterval
                                                    ELSE @]
    /\ UNCHANGED <<now, store, kstep, given>>
    /\ UNCHANGED besidesSeq

\* finally { await client.close() } rejects: the await in the loop throws.
KCloseFail ==
    /\ ks.pc = "close"
    /\ ks.fails < MaxFails
    /\ ks' = [ks EXCEPT !.pc = "failed", !.fails = @ + 1]
    /\ UNCHANGED <<now, store, kstep, given>>
    /\ UNCHANGED besidesSeq

\* The setTimeout fires.
KWake ==
    /\ ks.pc = "sleep"
    /\ now >= ks.wakeAt
    /\ ks' = [ks EXCEPT !.pc = "check"]
    /\ UNCHANGED <<now, store, kstep, given>>
    /\ UNCHANGED besidesSeq

\* The code is filled in and the run goes on, to the click that asks for
\* the next code and the waitForTimeout after it, or to the end.
KAdvance ==
    /\ ks.pc = "done"
    /\ given' = Append(given, [rec |-> ks.found, T |-> ks.startTime,
                               polls |-> ks.polls])
    /\ IF kstep < Len(StepSite)
       THEN /\ kstep' = kstep + 1
            /\ ks' = [Step0 EXCEPT !.pc = "wait", !.clickTime = now,
                         !.waitUntil = now + WaitAfterClick(StepSite[kstep + 1])]
       ELSE /\ kstep' = kstep
            /\ ks' = [ks EXCEPT !.pc = "over"]
    /\ UNCHANGED <<now, store>>
    /\ UNCHANGED besidesSeq

\* The three steps in a row: a store call takes no time and does not fail
\* here; what matters is when records arrive between the steps.
SeqNext ==
    \/ KInsert
    \/ KTick
    \/ KStart
    \/ KLoopEnter
    \/ KLoopExit
    \/ KFind
    \/ KCloseOk
    \/ KWake
    \/ KAdvance

SpecSeq == SeqInit /\ [][SeqNext]_vars

\* One loop on its own, with calls that take time and calls that fail.
LoopNext ==
    \/ KInsert
    \/ KTick
    \/ KCallTick
    \/ KStart
    \/ KLoopEnter
    \/ KLoopExit
    \/ KFind
    \/ KCallFail
    \/ KCloseOk
    \/ KCloseFail
    \/ KWake
    \/ KAdvance

SpecLoop == LoopInit /\ [][LoopNext]_vars

\* The records the finished steps of the run got, and the one the running
\* step has just been given.
Returned(k) == given[k].rec

\* C25: within one run the three sequential retrievals never return the
\* code of the same store record: a record returned to an earlier step has
\* createdAt not later than the reference timestamp of every later step,
\* and no later step is given it.
C25_SequentialStepsGetDistinctRecords ==
    /\ \A i, j \in 1 .. Len(given) :
          i < j => /\ Returned(i) # Returned(j)
                   /\ \A r \in Returned(i) : r.createdAt <= given[j].T
    /\ \A i \in 1 .. Len(given) :
          /\ ks.pc \notin {"idle", "wait", "over"}
               => \A r \in Returned(i) : r.createdAt <= ks.startTime
          /\ ks.pc \in {"close", "check", "done"} => ks.found # Returned(i)

\* C25 witness: the three steps have each been given a record, and the
\* record of OTP A was still the only one in the store when OTP B took its
\* reference timestamp.
C25_Witness ==
    /\ Len(given) = 3 /\ ks.pc = "over"
    /\ \A i \in 1 .. 3 : Returned(i) # {}
    /\ \A r \in store : r.id > 1 /\ r \notin Returned(1)
                           => r.createdAt > given[2].T

\* 60000 ms / 3000 ms
MaxPolls == TimeoutBudget \div PollInterval

\* C26: a single polling loop calls fetchLatestOtp at most 20 times,
\* whatever the store contains and however long each call takes: every
\* call but the first begins at least one sleep of 3000 ms after the call
\* before it, and none begins once 60000 ms have passed.
C26_AtMostTwentyPolls ==
    /\ ks.polls <= MaxPolls
    /\ ks.polls >= 1
         => /\ (ks.polls - 1) * PollInterval <= ks.callStart - ks.startTime
            /\ ks.callStart - ks.startTime < TimeoutBudget

\* C26 witness: a loop over a store with only an old record has timed out
\* after exactly 20 calls, one of which failed.
C26_Witness ==
    /\ ks.pc = "timeout" /\ ks.polls = MaxPolls
    /\ store = {OldRecord} /\ ks.fails = 1

(***************************************************************************)
(* The two report-download tests, for one downloaded XLS file:             *)
(* tests/Kotak_statementDownload.spec.js (client at 21-23, file handling   *)
(* at 96-160, logout and client.close() at 184-190, afterEach at 194) and  *)
(* unnamed/part_000 (try at 104, client at 110-113, file handling at       *)
(* 159-186, catch at 187-193, finally at 194-197, no afterEach).  The      *)
(* steps before the file is saved count as one step; insertMany is         *)
(* ordered, so when it throws the documents before the failing one have    *)
(* been written.                                                           *)
(***************************************************************************)
ReportFlows == {"AxisReport", "KotakStatement"}

\* The test is started with the sheet the bank will give it.
IngestInit ==
    /\ sheetCols \in SheetColumns
    /\ allRows \in SeqsUpTo(SampleRows, MaxRows)
    /\ rowIdx = 0
    /\ results = <<>>
    /\ origin = <<>>
    /\ parsePc = "idle"
    /\ parsed = <<>>
    /\ \E f \in ReportFlows : ing = [Ingest0 EXCEPT !.flow = f, !.pc = "connect"]
    /\ OtpIdle
    /\ FlowIdle
    /\ PairIdle
    /\ SeqIdle
    /\ CycleIdle
    /\ UploadIdle

\* sheet_to_json(sheet, {defval: null}): an empty cell is null.
KotakCell(cols, row, col) ==
    IF col \notin cols THEN Undefined
    ELSE IF row[col] = "" THEN Null ELSE row[col]

\* rows.map(r => ({ .. Amount: r['Amount'], .. })): one document per row.
KotakDoc(cols, row) ==
    [ Transaction_Date |-> KotakCell(cols, row, "Transaction Date"),
      Beneficiary_Name |-> KotakCell(cols, row, "Beneficiary Name"),
      Amount           |-> KotakCell(cols, row, "Amount"),
      Status           |-> KotakCell(cols, row, "Status") ]

\* The prefixes of a sequence that are shorter than it.
ShorterPrefixes(q) == {SubSeq(q, 1, n) : n \in 0 .. Len(q) - 1}

\* client = new MongoClient(MONGO_URI); await client.connect();
IConnect ==
    /\ ing.pc = "connect"
    /\ ing' = [ing EXCEPT !.pc = "download", !.conn = TRUE]
    /\ UNCHANGED parseVars
    /\ UNCHANGED besidesIngest

\* Login, the OTP where there is one, the report page, the download,
\* download.saveAs(path); then parseAxisBankReport(filePath) is called, or
\* xlsx.readFile(xlsPath).
IDownload ==
    /\ ing.pc = "download"
    /\ ing' = [ing EXCEPT !.onDisk = TRUE,
                          !.pc = IF ing.flow = "AxisReport" THEN "parse"
                                                            ELSE "map"]
    /\ parsePc' = IF ing.flow = "AxisReport" THEN "read" ELSE parsePc
    /\ UNCHANGED <<sheetCols, allRows, rowIdx, results, origin, parsed>>
    /\ UNCHANGED besidesIngest

\* const docs = parseAxisBankReport(filePath): what it returned.
IParsed ==
    /\ ing.pc = "parse"
    /\ parsePc \in {"done", "failed"}
    /\ ing' = [ing EXCEPT !.docs = parsed, !.pc = "branch"]
    /\ UNCHANGED parseVars
    /\ UNCHANGED besidesIngest

\* const rows = sheet_to_json(..); const docs = rows.map(..)
IMap ==
    /\ ing.pc = "map"
    /\ ing' = [ing EXCEPT
                 !.docs = [k \in 1 .. Len(allRows) |->
                              KotakDoc(sheetCols, allRows[k])],
                 !.pc = "branch"]
    /\ UNCHANGED parseVars
    /\ UNCHANGED besidesIngest

\* if (docs.length > 0) { .. } else { console.log('No records parsed') }
IBranch ==
    /\ ing.pc = "branch"
    /\ ing' = [ing EXCEPT
                 !.pc = IF Len(ing.docs) > 0 THEN "insert"
                        ELSE IF ing.flow = "AxisReport" THEN "notify"
                                                        ELSE "logout"]
    /\ UNCHANGED parseVars
    /\ UNCHANGED besidesIngest

\* await collection.insertMany(docs) resolves.
IInsert ==
    /\ ing.pc = "insert"
    /\ ing' = [ing EXCEPT !.stored = ing.docs, !.pc = "unlink"]
    /\ UNCHANGED parseVars
    /\ UNCHANGED besidesIngest

\* Where a throw of the step goes, and with which alert: the catch block
\* of unnamed/part_000 (187-193) sends the failure alert and throws again,
\* into the finally block; the Kotak test has no try and is left.
IThrown(step, written) ==
    [ing EXCEPT
       !.stored = written,
       !.exc = step,
       !.failed = @ \cup {step},
       !.alerts = IF ing.flow = "AxisReport" /\ step # "finally"
                  THEN Append(@, "Axis Report Download Failed") ELSE @,
       !.pc = IF ing.flow = "AxisReport" /\ step # "finally" THEN "finally"
                                                              ELSE "end"]

\* await collection.insertMany(docs) rejects, after the documents before
\* the failing one were written.
IInsertFail ==
    /\ ing.pc = "insert"
    /\ \E written \in ShorterPrefixes(ing.docs) :
         ing' = IThrown("insert", written)
    /\ UNCHANGED parseVars
    /\ UNCHANGED besidesIngest

\* A statement of another step throws.
IThrows ==
    /\ ing.pc \in {"connect", "download", "map", "logout", "close", "finally"}
    /\ ing' = IThrown(ing.pc, ing.stored)
    /\ UNCHANGED parseVars
    /\ UNCHANGED besidesIngest

\* try { fs.unlinkSync(path) } resolves.
IUnlink ==
    /\ ing.pc = "unlink"
    /\ ing' = [ing EXCEPT !.onDisk = FALSE, !.deleted = TRUE,
                          !.pc = IF ing.flow = "AxisReport" THEN "notify"
                                                            ELSE "logout"]
    /\ UNCHANGED parseVars
    /\ UNCHANGED besidesIngest

\* fs.unlinkSync throws: catch (err) { console.warn(..) }
IUnlinkFail ==
    /\ ing.pc = "unlink"
    /\ ing' = [ing EXCEPT !.failed = @ \cup {"unlink"},
                          !.pc = IF ing.flow = "AxisReport" THEN "notify"
                                                            ELSE "logout"]
    /\ UNCHANGED parseVars
    /\ UNCHANGED besidesIngest

\* await sendTelegramAlert(`Axis Report Downloaded & Saved ..`)
INotify ==
    /\ ing.pc = "notify"
    /\ ing' = [ing EXCEPT
                 !.alerts = Append(@, "Axis Report Downloaded & Saved"),
                 !.pc = "finally"]
    /\ UNCHANGED parseVars
    /\ UNCHANGED besidesIngest

\* Back to the file list, the profile menu, 'Log out'.
ILogout ==
    /\ ing.pc = "logout"
    /\ ing' = [ing EXCEPT !.pc = "close"]
    /\ UNCHANGED parseVars
    /\ UNCHANGED besidesIngest

\* await client.close(), as the last statement of the Kotak test or in
\* the finally block of the Axis test (if (client) ..; if (browser) ..).
IClose ==
    /\ ing.pc \in {"close", "finally"}
    /\ ing' = [ing EXCEPT !.conn = FALSE, !.pc = "end"]
    /\ UNCHANGED parseVars
    /\ UNCHANGED besidesIngest

\* The test is left; the afterEach hook of the Kotak file alerts when it
\* failed.
IEnd ==
    /\ ing.pc = "end"
    /\ ing' = [ing EXCEPT
                 !.pc = "ended",
                 !.outcome = IF ing.exc = "none" THEN "passed" ELSE "failed",
                 !.alerts = IF ing.exc # "none" /\ ing.flow = "KotakStatement"
                            THEN Append(@, "afterEach") ELSE @]
    /\ UNCHANGED parseVars
    /\ UNCHANGED besidesIngest

IngestNext ==
    \/ IConnect
    \/ IDownload
    \/ ParseRead
    \/ ParseReadFail
    \/ ParseStop
    \/ ParseSkip
    \/ ParsePush
    \/ ParseReturn
    \/ IParsed
    \/ IMap
    \/ IBranch
    \/ IInsert
    \/ IInsertFail
    \/ IThrows
    \/ IUnlink
    \/ IUnlinkFail
    \/ INotify
    \/ ILogout
    \/ IClose
    \/ IEnd

SpecIngest == IngestInit /\ [][IngestNext]_vars

\* The test has handled the file and is over.
IngestOver == ing.pc = "ended"

IngestAlerts == {ing.alerts[k] : k \in 1 .. Len(ing.alerts)}

\* The file has been saved to the disk.
FileSaved == ing.onDisk \/ ing.deleted

\* The file has been parsed and gave no record.
NoneParsed == ing.pc \notin {"parse", "map"} /\ Len(ing.docs) = 0

\* C27: in both report-download flows a downloaded XLS file is deleted only
\* after its parsed records have been inserted into the results
\* collection; when zero records are parsed, or when the insert fails, the
\* file is left on disk and nothing is inserted for it.
C27_DeletedOnlyAfterInsert ==
    /\ ing.deleted => (ing.stored = ing.docs /\ Len(ing.docs) > 0)
    /\ (FileSaved /\ (NoneParsed \/ "insert" \in ing.failed))
         => (ing.onDisk /\ ing.stored = <<>>)

\* C27 witness: insertMany threw in the Kotak statement test after it had
\* written a document; the file is on disk and the test has failed.
C27_Witness ==
    /\ IngestOver /\ ing.flow = "KotakStatement" /\ ing.outcome = "failed"
    /\ "insert" \in ing.failed /\ ing.onDisk
    /\ Len(ing.stored) >= 1 /\ Len(ing.stored) < Len(ing.docs)

\* C28: in the Axis report-download flow the success notification 'Axis
\* Report Downloaded & Saved' is sent only when the report was parsed
\* without error and at least one record was stored; a report that cannot
\* be read or parsed results in a failure alert, not a success alert.
C28_SuccessAlertOnlyAfterStoredRecords ==
    ing.flow = "AxisReport"
        => /\ "Axis Report Downloaded & Saved" \in IngestAlerts
                => (parsePc = "done" /\ Len(ing.stored) >= 1)
           /\ (IngestOver /\ parsePc = "failed")
                => /\ "Axis Report Download Failed" \in IngestAlerts
                   /\ "Axis Report Downloaded & Saved" \notin IngestAlerts

\* C28 witness: the report could not be read, parseAxisBankReport returned
\* an empty array, and the test has passed after the success notification,
\* with nothing stored and no failure alert.
C28_Witness ==
    /\ IngestOver /\ ing.flow = "AxisReport" /\ ing.outcome = "passed"
    /\ parsePc = "failed" /\ ing.stored = <<>> /\ ing.onDisk
    /\ ing.alerts = <<"Axis Report Downloaded & Saved">>

\* C29: every results-store connection opened by a report-download flow is
\* closed by the time the flow's run ends, on success and on failure at
\* any step.
C29_ConnectionClosedWhenRunEnds ==
    IngestOver => ~ing.conn

\* C29 witness: a step of the Kotak statement-download test threw after
\* client.connect(); the test has ended as failed with its client still
\* connected.
C29_Witness ==
    /\ IngestOver /\ ing.flow = "KotakStatement" /\ ing.outcome = "failed"
    /\ ing.failed = {"download"} /\ ing.conn

(***************************************************************************)
(* unnamed/part_001: the Axis upload test and the files of sampleFilesDir. *)
(* A file is known by its name, its extension as written, and its mtime.   *)
(* The steps between the check of the directory and the file chooser, and  *)
(* those after it, count as one step each.                                 *)
(***************************************************************************)
\* Files the directory may hold.
MaxDirFiles == 2

\* Extensions as written in the file names.
Exts == {".xls", ".xlsx", ".XLSX"}

DirFiles == [name : 1 .. MaxDirFiles, ext : Exts, time : 1 .. 2]

\* String.prototype.toLowerCase on an extension.
LowerExt(e) == IF e = ".XLSX" THEN ".xlsx" ELSE e

\* file.endsWith(suffix), for a suffix that is an extension.
EndsWith(f, suffix) == f.ext = suffix

\* The message of the Error getLatestFile throws.
NoFilesError == "No files with extension"

\* files.filter(extname(file).toLowerCase() === extension.toLowerCase())
\*      .map(..).sort((a, b) => b.time - a.time)[0]
LatestCandidates(dir, extension) ==
    LET match == {f \in dir : LowerExt(f.ext) = LowerExt(extension)}
    IN  {f \in match : \A g \in match : g.time <= f.time}

UploadInit ==
    /\ \E d \in SUBSET DirFiles :
         /\ Cardinality(d) <= MaxDirFiles
         /\ up = [Upload0 EXCEPT !.pc = "check", !.dir = d]
    /\ OtpIdle
    /\ FlowIdle
    /\ PairIdle
    /\ SeqIdle
    /\ ParseIdle
    /\ CycleIdle
    /\ IngestIdle

\* const excelFiles = readdirSync(..).filter(endsWith('.xlsx') ||
\* endsWith('.xls')); if (excelFiles.length === 0) { alert; return; }
UCheck ==
    /\ up.pc = "check"
    /\ LET excel == {f \in up.dir : EndsWith(f, ".xlsx") \/ EndsWith(f, ".xls")}
       IN  up' = [up EXCEPT
                    !.excelFiles = excel,
                    !.alerts = IF excel = {}
                               THEN Append(@, "No Excel files found") ELSE @,
                    !.pc = IF excel = {} THEN "end" ELSE "login"]
    /\ UNCHANGED besidesUpload

\* Browser launch, login and the way to the upload page.
ULogin ==
    /\ up.pc = "login"
    /\ up' = [up EXCEPT !.pc = "file"]
    /\ UNCHANGED besidesUpload

\* catch (error) { sendTelegramAlert(alertMessage); throw error; }
UCaught(message) ==
    [up EXCEPT !.exc = message,
               !.alerts = Append(@, "Axis Bank Automation Failed"),
               !.pc = "end"]

\* A statement of the steps before or after the file chooser throws.
UThrows ==
    /\ up.pc \in {"login", "rest"}
    /\ up' = UCaught(up.pc)
    /\ UNCHANGED besidesUpload

\* const latestExcelFile = getLatestFile(sampleFilesDir, '.xlsx');
UGetLatest ==
    /\ up.pc = "file"
    /\ IF LatestCandidates(up.dir, ".xlsx") = {}
       THEN up' = UCaught(NoFilesError)
       ELSE \E f \in LatestCandidates(up.dir, ".xlsx") :
               up' = [up EXCEPT !.latest = {f}, !.pc = "rest"]
    /\ UNCHANGED besidesUpload

\* fileChooser.setFiles(filePath), validation, payment, the alert of the
\* payment verification.
URest ==
    /\ up.pc = "rest"
    /\ up' = [up EXCEPT !.alerts = Append(@, "Axis Bank Payment"),
                        !.pc = "end"]
    /\ UNCHANGED besidesUpload

\* The test is left; the afterEach hook alerts when it failed.
UEnd ==
    /\ up.pc = "end"
    /\ up' = [up EXCEPT
                !.pc = "ended",
                !.outcome = IF up.exc = "none" THEN "passed" ELSE "failed",
                !.alerts = IF up.exc # "none" THEN Append(@, "afterEach")
                                              ELSE @]
    /\ UNCHANGED besidesUpload

UploadNext ==
    \/ UCheck
    \/ ULogin
    \/ UThrows
    \/ UGetLatest
    \/ URest
    \/ UEnd

SpecUpload == UploadInit /\ [][UploadNext]_vars

\* C30: whenever the check "at least one Excel file exists in the
\* directory" has passed, the File Upload step finds a file to upload:
\* getLatestFile never throws 'No files with extension' after the check
\* has passed, for any directory content of .xls and .xlsx files.
C30_CheckedDirectoryHasUploadFile ==
    up.excelFiles # {} => up.exc # NoFilesError

\* C30 witness: the directory holds only .xls files, the check has passed
\* and the test has failed in getLatestFile.
C30_Witness ==
    /\ up.pc = "ended" /\ up.outcome = "failed"
    /\ up.excelFiles # {} /\ \A f \in up.dir : f.ext = ".xls"
    /\ up.exc = NoFilesError
    /\ up.alerts = <<"Axis Bank Automation Failed", "afterEach">>

=============================================================================
